---------------------------- MODULE Spec2Model ----------------------------
(***************************************************************************)
(* A model of the ai-devops orchestrator: the plan schema, the dispatcher, *)
(* the spawner (zoe-daemon) and the supervisor (monitor).                   *)
(*                                                                         *)
(* The module holds several specifications over one set of variables:      *)
(*   SpecPlan      Plan.from_dict and topologically_sorted_subtasks on     *)
(*                 every bounded payload                                   *)
(*   SpecDispatch  dispatch_ready_subtasks on every accepted plan, every   *)
(*                 dispatch state and every bounded registry               *)
(*   SpecChecks    analyze_checks / merge_clean on every bounded PR        *)
(*   Spec          the running system: dispatcher, spawner and supervisor  *)
(*                 processes interleaving on the queue and the registry    *)
(*   SpecTools     requests handed to zoe_tool_api invoke, one after the   *)
(*                 other, on a tasks directory                             *)
(*   SpecFiles     write_text and read_text of the JSON files, one system  *)
(*                 call per step                                           *)
(*   SpecLive      the supervisor alone with one agent and its PR on the   *)
(*                 hosting service, under fair scheduling                  *)
(*   SpecWatch     watch_and_dispatch with the spawner and the supervisor, *)
(*                 under fair scheduling                                   *)
(*   SpecTick      the supervisor alone on a registry of two entries, each *)
(*                 tick seeing any look of each entry                      *)
(*   SpecSpawn     the spawner on a queue of two files, next to the        *)
(*                 supervisor                                              *)
(*   SpecReaders   the registry file and the four processes that load it   *)
(*   SpecProfile   the planner's task profile and subtask template on      *)
(*                 every bounded request                                   *)
(*   SpecRestart   the spawner next to a supervisor whose restarts of an   *)
(*                 agent may fail                                          *)
(*   SpecReady     the supervisor alone on passing PRs, with registry      *)
(*                 writes that may fail                                    *)
(*   SpecIds       the ids of two subtasks, character by character, from   *)
(*                 the plan to the queue and the registry                  *)
(***************************************************************************)
EXTENDS Integers, Sequences, FiniteSets, TLC

VARIABLES
    \* ---- plan schema (plan_schema.py)
    payload,        \* the raw plan payload handed to Plan.from_dict
    plan,           \* the result of Plan.from_dict: a Plan or an InvalidPlan
    ordered,        \* the result of topologically_sorted_subtasks
    \* ---- files under AI_DEVOPS_HOME
    dispatchState,  \* tasks/<planId>/dispatch-state.json: the "dispatched" map
    sidecars,       \* tasks/<planId>/subtasks/<id>.json: the "dispatch" field
    queueDir,       \* orchestrator/queue/<taskId>.json: file name -> payload
    registry,       \* .clawdbot/active-tasks.json: a list of entries
    \* ---- the dispatcher's caller
    call,           \* the last call of dispatch_ready_subtasks: its number,
                    \* its registry_items argument and the list it returned
    \* ---- check analysis (monitor.py)
    pr,             \* the PR dict handed to analyze_checks
    analysis,       \* the tuple analyze_checks returned
    clean,          \* the bool merge_clean returned
    \* ---- the tool layer (zoe_tool_api.py, zoe_tools.py)
    tasksDir,       \* tasks/: plan id -> plan.json, sidecars, dispatch state
    request,        \* the request handed to invoke
    response,       \* what invoke wrote to stdout, or how it ended
    \* ---- the files as byte sequences (Path.write_text, Path.read_text)
    disk,           \* file -> the text it holds at this moment
    writer,         \* the write_text call in progress, if any
    reader,         \* the last read_text call and what json.loads made of it
    \* ---- watch mode (dispatch.py watch_and_dispatch)
    watching,       \* the loop's position and locals: loops, max_loops, all_queued
    \* ---- the spawner process (zoe-daemon.py main)
    spawner,        \* its position and locals: the sorted glob, task, reg, item
    \* ---- the supervisor process (monitor.py main)
    monitor,        \* its position and locals: items, changed, what it saw
    notified_ready, \* its in-memory set of task ids
    \* ---- the machine
    backend,        \* "tmux" when tmux_available(), "process" otherwise
    runtime,        \* task id -> the state of its agent runner
    worktrees,      \* worktree directory -> prompt.txt and the retry prompts
    runs,           \* task id -> the command line of its last agent runner
    \* ---- what has happened so far
    launches,       \* task id -> agent runners the spawner started
    respawns,       \* task id -> agent runners the supervisor restarted
    notified,       \* notification kind -> task id -> messages sent
    crashes         \* spawner crashes so far

planVars == <<payload, plan, ordered>>
fileVars == <<dispatchState, sidecars, queueDir, registry>>
checkVars == <<pr, analysis, clean>>
toolVars == <<tasksDir, request, response>>
ioVars == <<disk, writer, reader>>
watchVars == <<watching>>
agentVars == <<worktrees, runs>>
procVars == <<spawner, monitor, notified_ready>>
worldVars == <<backend, runtime>>
histVars == <<launches, respawns, notified, crashes>>
systemVars == <<procVars, worldVars, histVars>>

None == "None"
\* "not computed yet", for the variables that hold a record or a sequence
NoPlan == [ok |-> FALSE, error |-> None]
Unsorted == [ok |-> FALSE, error |-> None]
NoPR == [exists |-> FALSE]
NoAnalysis == [done |-> FALSE]
NoWriter == [pc |-> "idle", n |-> 0, role |-> None, file |-> None,
             previous |-> <<>>, data |-> <<>>]
NoReader == [done |-> FALSE, role |-> None, file |-> None, text |-> <<>>,
             writing |-> NoWriter]
NoDisk == <<>>
NoWatch == [pc |-> "idle", capped |-> FALSE, max_loops |-> 0, loops |-> 0,
            all_queued |-> <<>>, before |-> {}, subtasks |-> <<>>, replans |-> 0]
NoVerdict == [done |-> FALSE]
NoRun == [runner |-> None, prompt |-> None, mode |-> None]
NoRequest == [tool |-> None]
NoResponse == [kind |-> "none", n |-> 0, ok |-> FALSE, tool |-> None,
               code |-> None, type |-> None]

(***************************************************************************)
(* Generic sequence helpers.                                                *)
(***************************************************************************)
Range(s) == {s[i] : i \in 1..Len(s)}

RECURSIVE SeqsUpTo(_, _)
\* every sequence over S of length <= n
SeqsUpTo(S, n) ==
    IF n = 0 THEN {<<>>}
    ELSE LET shorter == SeqsUpTo(S, n - 1)
         IN shorter \cup {Append(s, x) : s \in {t \in shorter : Len(t) = n - 1}, x \in S}

\* the index of the first occurrence of x in s (x occurs in s)
IndexOf(s, x) == CHOOSE i \in 1..Len(s) : s[i] = x /\ \A j \in 1..(i - 1) : s[j] # x

Count(s, x) == Cardinality({i \in 1..Len(s) : s[i] = x})

(***************************************************************************)
(* Bounds of the plan universe.                                             *)
(***************************************************************************)
MaxSubtasks == 3
MaxDeps == 2

SubtaskNames == <<"S1", "S2", "S3", "S4", "S5">>
\* the ids a payload may use for its subtasks
IdPool == {SubtaskNames[i] : i \in 1..MaxSubtasks}
\* an id no subtask of any payload has (test_depends_on_unknown_subtask_fails)
UnknownId == "S9"

\* dependsOn: up to MaxDeps ids of the pool (repetitions allowed), or the
\* unknown id
DependsOnLists == SeqsUpTo(IdPool, MaxDeps) \cup {<<UnknownId>>}

RawSubtasks == [id : IdPool, depends_on : DependsOnLists]

Payloads ==
    [planId : {"P1"}, subtasks : SeqsUpTo(RawSubtasks, MaxSubtasks)]

(***************************************************************************)
(* plan_schema.py                                                           *)
(***************************************************************************)
InvalidPlan(msg) == [ok |-> FALSE, error |-> "InvalidPlan", message |-> msg]

\* IDENTIFIER_RE.match(value), on the strings that occur here: the two that
\* hold a character outside [A-Za-z0-9_-]
IDENTIFIER_RE_match(value) == value \notin {"bad/id", "Auth flow"}

\* sanitize_identifier(value), on the strings that occur here: a string of
\* identifier characters without "--" and without a leading or trailing
\* separator comes back as it is
sanitize_identifier(value) ==
    CASE value = "Auth flow" -> "Auth-flow"
      [] value = "auth flow" -> "auth-flow"
      [] value = "bad/id" -> "bad-id"
      [] value = "" -> "task"
      [] OTHER -> value

IsPlan(p) == p.ok

subtask_ids(subtasks) == [i \in 1..Len(subtasks) |-> subtasks[i].id]

RECURSIVE Edges(_, _, _)
\* the (dep, subtask id) pairs in the order the nested loops
\*   for subtask in subtasks: for dep in subtask.depends_on
\* visit them, from subtask i, dependency j on
Edges(subtasks, i, j) ==
    IF i > Len(subtasks) THEN <<>>
    ELSE IF j > Len(subtasks[i].depends_on) THEN Edges(subtasks, i + 1, 1)
    ELSE <<[dep |-> subtasks[i].depends_on[j], child |-> subtasks[i].id]>>
             \o Edges(subtasks, i, j + 1)

RECURSIVE ChildrenOf(_, _)
ChildrenOf(edges, dep) ==
    IF edges = <<>> THEN <<>>
    ELSE IF Head(edges).dep = dep
         THEN <<Head(edges).child>> \o ChildrenOf(Tail(edges), dep)
         ELSE ChildrenOf(Tail(edges), dep)

\* adjacency[dep] = the subtasks depending on dep, one occurrence per
\* dependsOn occurrence, in append order
Adjacency(subtasks) ==
    [d \in Range(subtask_ids(subtasks)) |-> ChildrenOf(Edges(subtasks, 1, 1), d)]

RECURSIVE VisitChildren(_, _, _)
\* for child in adjacency[current]: indegree[child] -= 1;
\*     if indegree[child] == 0: queue.append(child)
VisitChildren(children, queue, indegree) ==
    IF children = <<>> THEN [queue |-> queue, indegree |-> indegree]
    ELSE LET child == Head(children)
             deg == indegree[child] - 1
         IN VisitChildren(Tail(children),
                          IF deg = 0 THEN Append(queue, child) ELSE queue,
                          [indegree EXCEPT ![child] = deg])

\* every node counted as visited: the cycle test left out
KahnVisited_CountAll(adjacency, queue, indegree, visited) ==
    Cardinality(DOMAIN adjacency)

RECURSIVE KahnVisited(_, _, _, _)
\* the while loop of _validate_dependencies: the number of nodes visited
KahnVisited(adjacency, queue, indegree, visited) ==
    IF queue = <<>> THEN visited
    ELSE LET r == VisitChildren(adjacency[Head(queue)], Tail(queue), indegree)
         IN KahnVisited(adjacency, r.queue, r.indegree, visited + 1)

validate_dependencies(subtasks) ==
    LET ids == subtask_ids(subtasks)
        known == Range(ids)
    IN IF Len(ids) # Cardinality(known)
       THEN "Subtask ids must be unique inside a plan"
       ELSE IF \E i \in 1..Len(subtasks) :
                  \E j \in 1..Len(subtasks[i].depends_on) :
                      subtasks[i].depends_on[j] \notin known
       THEN "depends on unknown subtask"
       ELSE LET indegree == [d \in known |->
                                Len(subtasks[IndexOf(ids, d)].depends_on)]
                queue == SelectSeq(ids, LAMBDA d : indegree[d] = 0)
            IN IF KahnVisited(Adjacency(subtasks), queue, indegree, 0) # Len(subtasks)
               THEN "Subtask dependency graph contains a cycle"
               ELSE "ok"

\* Plan.from_dict, restricted to the fields the dispatcher reads: the plan
\* id and, per subtask, its id and dependsOn.  (The string, enumeration and
\* prompt-size validations of the other fields are not modelled.)
from_dict(data) ==
    IF ~IDENTIFIER_RE_match(data.planId) THEN InvalidPlan("Invalid planId")
    ELSE IF data.subtasks = <<>> THEN InvalidPlan("subtasks must be a non-empty array")
    ELSE LET verdict == validate_dependencies(data.subtasks)
         IN IF verdict # "ok" THEN InvalidPlan(verdict)
            ELSE [ok |-> TRUE, plan_id |-> data.planId, subtasks |-> data.subtasks]

RECURSIVE InsertByKey(_, _, _)
InsertByKey(sorted, x, key) ==
    IF sorted = <<>> THEN <<x>>
    ELSE IF key[x] < key[Head(sorted)] THEN <<x>> \o sorted
    ELSE <<Head(sorted)>> \o InsertByKey(Tail(sorted), x, key)

\* the list left as it is: no sort
SortByKey_Unsorted(s, key) == s

RECURSIVE SortByKey(_, _)
\* list.sort(key=...): a stable sort (insertion after the equal keys)
SortByKey(s, key) ==
    IF s = <<>> THEN <<>>
    ELSE InsertByKey(SortByKey(SubSeq(s, 1, Len(s) - 1), key), s[Len(s)], key)

original_order(subtasks) ==
    [d \in Range(subtask_ids(subtasks)) |-> IndexOf(subtask_ids(subtasks), d)]

subtask_by_id(subtasks, d) == subtasks[IndexOf(subtask_ids(subtasks), d)]

RECURSIVE ReleaseChildren_OffByOne(_, _, _)
\* the inner loop with "<= 1" for "== 0": a child is released one
\* dependency early
ReleaseChildren_OffByOne(children, ready, indegree) ==
    IF children = <<>> THEN [queue |-> ready, indegree |-> indegree]
    ELSE LET child == Head(children)
             deg == indegree[child] - 1
         IN ReleaseChildren_OffByOne(Tail(children),
                          IF deg <= 1 THEN Append(ready, child) ELSE ready,
                          [indegree EXCEPT ![child] = deg])

\* for child in adjacency[current]: indegree[child] -= 1;
\*     if indegree[child] == 0: ready.append(child)
ReleaseChildren(children, ready, indegree) ==
    VisitChildren(children, ready, indegree)

RECURSIVE TopoLoop(_, _, _, _, _)
\* the while loop of topologically_sorted_subtasks
TopoLoop(subtasks, adjacency, ready, indegree, acc) ==
    IF ready = <<>> THEN acc
    ELSE CHOOSE result \in
           {TopoLoop(subtasks, adjacency, queue, r.indegree, next) :
              r \in {ReleaseChildren(adjacency[Head(ready)], Tail(ready),
                                     indegree)},
              queue \in {SortByKey(
                            ReleaseChildren(adjacency[Head(ready)], Tail(ready),
                                            indegree).queue,
                            original_order(subtasks))},
              next \in {Append(acc, subtask_by_id(subtasks, Head(ready)))}} :
           TRUE

topologically_sorted_subtasks(p) ==
    CHOOSE outcome \in
      {IF Len(result) # Len(p.subtasks)
       THEN InvalidPlan("Subtask dependency graph contains a cycle")
       ELSE [ok |-> TRUE, value |-> result] :
         result \in
           {TopoLoop(p.subtasks, adjacency, ready, indegree, <<>>) :
              adjacency \in {Adjacency(p.subtasks)},
              indegree \in
                {[d \in Range(subtask_ids(p.subtasks)) |->
                    Len(subtask_by_id(p.subtasks, d).depends_on)]},
              ready \in
                {SortByKey(
                   SelectSeq(subtask_ids(p.subtasks),
                             LAMBDA d :
                               Len(subtask_by_id(p.subtasks, d).depends_on) = 0),
                   original_order(p.subtasks))}}} : TRUE

(***************************************************************************)
(* dispatch.py                                                              *)
(***************************************************************************)
TaskNames == <<"P1-S1", "P1-S2", "P1-S3", "P1-S4", "P1-S5">>

\* sanitize_identifier(f"{plan.plan_id}-{subtask.id}"); for the plan id "P1"
\* and the subtask ids of SubtaskNames these are the names of TaskNames
execution_task_id(p, subtask) ==
    sanitize_identifier(p.plan_id \o "-" \o subtask.id)

\* item.get("metadata") if it is a dict, else {}
metadata_of(item) ==
    IF item.metadata.is_dict THEN item.metadata
    ELSE [is_dict |-> TRUE, planId |-> None, subtaskId |-> None]

ready_subtask_ids_AnyStatus(p, registry_items) ==
    {metadata_of(registry_items[i]).subtaskId :
        i \in {k \in 1..Len(registry_items) :
                 /\ metadata_of(registry_items[k]).planId = p.plan_id
                 /\ metadata_of(registry_items[k]).subtaskId # None}}

ready_subtask_ids(p, registry_items) ==
    {metadata_of(registry_items[i]).subtaskId :
        i \in {k \in 1..Len(registry_items) :
                 /\ metadata_of(registry_items[k]).planId = p.plan_id
                 /\ registry_items[k].status = "ready"
                 /\ metadata_of(registry_items[k]).subtaskId # None}}

\* plan.repo: the plans here are plans for one repository
PlanRepo == "demo"

build_execution_task(p, subtask, planned_by) ==
    [id |-> execution_task_id(p, subtask),
     repo |-> PlanRepo,
     metadata |-> [is_dict |-> TRUE,
                   planId |-> p.plan_id,
                   subtaskId |-> subtask.id,
                   plannedBy |-> planned_by]]

\* build_execution_task(plan, subtask): planned_by takes its default
DefaultPlannedBy == "openclaw"

\* int(time.time() * 1000): the time of queueing, which nothing reads back
Timestamp == "ms"

Planned == [state |-> "planned", queuedTaskId |-> None, queuedAt |-> None]
Queued(task_id) ==
    [state |-> "queued", queuedTaskId |-> task_id, queuedAt |-> Timestamp]

\* d[k] = v, adding the key when it is new
Put(d, k, v) == [x \in DOMAIN d \cup {k} |-> IF x = k THEN v ELSE d[x]]

\* the check of the dispatch state left out
is_queued_Never(dispatched, id) == FALSE

\* dispatched.get(subtask.id, {}).get("state") == "queued"
is_queued(dispatched, id) ==
    id \in DOMAIN dispatched /\ dispatched[id].state = "queued"

\* any(...) for all(...)
deps_completed_Any(subtask, completed) ==
    \/ subtask.depends_on = <<>>
    \/ \E j \in 1..Len(subtask.depends_on) : subtask.depends_on[j] \in completed

\* the test of the dependencies left out
deps_completed_Always(subtask, completed) == TRUE

\* all(dep in completed for dep in subtask.depends_on)
deps_completed(subtask, completed) ==
    \A j \in 1..Len(subtask.depends_on) : subtask.depends_on[j] \in completed

RECURSIVE DispatchLoop(_, _, _, _)
\* the for loop of dispatch_ready_subtasks over the topological order;
\* acc = [dispatched, sidecars, queue, queued_paths]
DispatchLoop(p, todo, completed, acc) ==
    IF todo = <<>> THEN acc
    ELSE LET subtask == Head(todo)
             task_payload == build_execution_task(p, subtask, DefaultPlannedBy)
         IN IF is_queued(acc.dispatched, subtask.id)
                \/ ~deps_completed(subtask, completed)
            THEN DispatchLoop(p, Tail(todo), completed, acc)
            ELSE CHOOSE result \in
                   {DispatchLoop(p, rest, completed, next) :
                      rest \in {Tail(todo)},
                      next \in
                        {[dispatched |-> Put(acc.dispatched, subtask.id,
                                             Queued(task_payload.id)),
                          sidecars |-> Put(acc.sidecars, subtask.id,
                                           Queued(task_payload.id)),
                          queue |-> Put(acc.queue, task_payload.id, task_payload),
                          queued_paths |-> Append(acc.queued_paths,
                                                  task_payload.id)]}} : TRUE

\* the files under base_dir that the dispatcher reads and writes
BaseDir(dispatched, sidecar_files, queue_files) ==
    [dispatched |-> dispatched, sidecars |-> sidecar_files, queue |-> queue_files]

\* dispatch_ready_subtasks(plan, base_dir=..., registry_items=...): what it
\* leaves on disk and the list it returns
dispatch_ready_subtasks(p, base_dir, registry_items) ==
    CHOOSE result \in
      {DispatchLoop(p, ordered_subtasks, completed, acc) :
         ordered_subtasks \in {topologically_sorted_subtasks(p).value},
         completed \in {ready_subtask_ids(p, registry_items)},
         acc \in {[dispatched |-> base_dir.dispatched,
                   sidecars |-> base_dir.sidecars,
                   queue |-> base_dir.queue,
                   queued_paths |-> <<>>]}} : TRUE

\* every sidecar of the plan written with the dispatch field of a new one
archive_subtasks_Reset(p, existing) ==
    [d \in DOMAIN existing \cup Range(subtask_ids(p.subtasks)) |->
        IF d \in Range(subtask_ids(p.subtasks)) THEN Planned ELSE existing[d]]

\* archive_subtasks: a sidecar that exists keeps its dispatch field, a new
\* one starts as planned; the sidecars of other subtask ids stay
archive_subtasks(p, existing) ==
    [d \in DOMAIN existing \cup Range(subtask_ids(p.subtasks)) |->
        IF d \in DOMAIN existing THEN existing[d] ELSE Planned]

(***************************************************************************)
(* monitor.py: merge readiness and check analysis.                          *)
(***************************************************************************)
\* str.upper() on the strings that occur here
Upper(str) ==
    CASE str = "completed" -> "COMPLETED"
      [] str = "failure" -> "FAILURE"
      [] str = "success" -> "SUCCESS"
      [] str = "clean" -> "CLEAN"
      [] str = "Clean" -> "CLEAN"
      [] str = "dirty" -> "DIRTY"
      [] str = "open" -> "OPEN"
      [] OTHER -> str

\* the Python values True and False; None (above) is the Python value None,
\* every other value of the model is the Python string of the same text
PyTrue == "bool:True"
PyFalse == "bool:False"

\* str(value)
Str(value) ==
    CASE value = PyTrue -> "True"
      [] value = PyFalse -> "False"
      [] OTHER -> value

\* str.lower() on the strings that occur here
Lower(str) ==
    CASE str = "True" -> "true"
      [] str = "TRUE" -> "true"
      [] str = "False" -> "false"
      [] str = "None" -> "none"
      [] str = "MERGEABLE" -> "mergeable"
      [] str = "Mergeable" -> "mergeable"
      [] str = "Auth flow" -> "auth flow"
      [] str = "CONFLICTING" -> "conflicting"
      [] str = "UNKNOWN" -> "unknown"
      [] OTHER -> str

\* the case of the letters ignored only for the merge state
merge_clean_ExactMergeable(p) ==
    LET mergeable == p.mergeable
        status == Upper(IF p.mergeStateStatus = None THEN "" ELSE p.mergeStateStatus)
        mergeable_ok == Str(mergeable) \in {"true", "mergeable"}
    IN mergeable_ok /\ status = "CLEAN"

\* a mergeStateStatus that is missing or null is None
merge_clean(p) ==
    LET mergeable == p.mergeable
        status == Upper(IF p.mergeStateStatus = None THEN "" ELSE p.mergeStateStatus)
        mergeable_ok == Lower(Str(mergeable)) \in {"true", "mergeable"}
    IN mergeable_ok /\ status = "CLEAN"

FailureConclusions == {"FAILURE", "CANCELLED", "TIMED_OUT", "ACTION_REQUIRED"}

\* c.get("name") or c.get("context") or "check"
check_name(c) ==
    IF c.name # "" THEN c.name
    ELSE IF c.context # "" THEN c.context
    ELSE "check"

RECURSIVE Join(_, _)
\* sep.join(parts)
Join(sep, parts) ==
    IF parts = <<>> THEN ""
    ELSE IF Len(parts) = 1 THEN parts[1]
    ELSE parts[1] \o sep \o Join(sep, Tail(parts))

RECURSIVE ChecksLoop(_, _, _)
\* the for loop of analyze_checks: [pending, failures]
ChecksLoop(rollup, pending, failures) ==
    IF rollup = <<>> THEN [pending |-> pending, failures |-> failures]
    ELSE LET c == Head(rollup)
             name == check_name(c)
             status == Upper(c.status)
             conc == Upper(c.conclusion)
         IN IF status # "COMPLETED" /\ conc = ""
            THEN ChecksLoop(Tail(rollup), TRUE, failures)
            ELSE IF conc \in FailureConclusions
            THEN ChecksLoop(Tail(rollup), pending,
                            Append(failures, name \o ":" \o conc))
            ELSE ChecksLoop(Tail(rollup), pending, failures)

Analysis(passed, failure_summary, pending) ==
    [done |-> TRUE, passed |-> passed,
     failure_summary |-> failure_summary, pending |-> pending]

\* failures looked at before pending
analyze_checks_FailuresFirst(p) ==
    LET rollup == p.statusCheckRollup
        r == ChecksLoop(rollup, FALSE, <<>>)
    IN IF rollup = <<>> THEN Analysis(FALSE, None, TRUE)
       ELSE IF r.failures # <<>> THEN Analysis(FALSE, Join("; ", r.failures), FALSE)
       ELSE IF r.pending THEN Analysis(FALSE, None, TRUE)
       ELSE Analysis(TRUE, None, FALSE)

\* (passed, failure_summary, pending); a rollup that is missing or null is
\* the empty list
analyze_checks(p) ==
    LET rollup == p.statusCheckRollup
        r == ChecksLoop(rollup, FALSE, <<>>)
    IN IF rollup = <<>> THEN Analysis(FALSE, None, TRUE)
       ELSE IF r.pending THEN Analysis(FALSE, None, TRUE)
       ELSE IF r.failures # <<>> THEN Analysis(FALSE, Join("; ", r.failures), FALSE)
       ELSE Analysis(TRUE, None, FALSE)

\* a PR as gh pr view --json prints it
PullRequest(state, mergeable, mergeStateStatus, rollup) ==
    [exists |-> TRUE, number |-> "#7", url |-> "https://host/pull/7",
     state |-> state, mergeable |-> mergeable,
     mergeStateStatus |-> mergeStateStatus, statusCheckRollup |-> rollup]

(***************************************************************************)
(* The processes at rest: the state of the spawner, the supervisor and the  *)
(* machine before anything runs.                                            *)
(***************************************************************************)
NoTask == [id |-> None]
IdleSpawner == [pc |-> "idle", files |-> <<>>, task |-> NoTask,
                reg |-> <<>>, item |-> NoTask]
IdleMonitor == [pc |-> "idle", items |-> <<>>, changed |-> FALSE, seen |-> <<>>]
NotificationKinds == {"ready", "blocked", "retry", "needs_rebase",
                      "agent_failed", "agent_dead", "restart_failed"}

AtRest(ids) ==
    /\ watching = NoWatch
    /\ writer = NoWriter
    /\ reader = NoReader
    /\ request = NoRequest
    /\ response = NoResponse
    /\ spawner = IdleSpawner
    /\ monitor = IdleMonitor
    /\ notified_ready = {}
    /\ runtime = [id \in ids |-> "absent"]
    /\ worktrees = <<>>
    /\ runs = [id \in ids |-> NoRun]
    /\ launches = [id \in ids |-> 0]
    /\ respawns = [id \in ids |-> 0]
    /\ notified = [k \in NotificationKinds |-> [id \in ids |-> 0]]
    /\ crashes = 0

(***************************************************************************)
(* SpecDispatch: dispatch_ready_subtasks called, again and again, on any    *)
(* accepted plan, starting from any dispatch state, each time with any      *)
(* registry content.                                                        *)
(***************************************************************************)
MaxCalls == 2

\* what the caller sees of a call: the registry_items it passed, those of
\* the call before, the dispatch state and the queue it found, and the
\* list returned
NoCall == [n |-> 0, registry_items |-> <<>>, previous_items |-> <<>>,
           dispatched_before |-> <<>>, queue_before |-> <<>>,
           queued_paths |-> <<>>]

\* a registry entry as spawn_agent builds it (zoe-daemon.py), in the given
\* status
RegistryItem(task_id, metadata, status) ==
    [id |-> task_id, status |-> status, attempts |-> 0, maxAttempts |-> 3,
     pr |-> None, prUrl |-> None, completedAt |-> None, note |-> None,
     lastFailure |-> None, executionMode |-> "tmux", agent |-> "codex",
     branch |-> "feat/" \o task_id, worktree |-> "feat-" \o task_id,
     metadata |-> metadata]

PlanMetadata(plan_id, subtask_id) ==
    [is_dict |-> TRUE, planId |-> plan_id, subtaskId |-> subtask_id]

RECURSIVE ItemsOf(_, _)
\* the entries of the subtasks i.. that f does not map to "absent"
ItemsOf(f, i) ==
    IF i > MaxSubtasks THEN <<>>
    ELSE IF f[SubtaskNames[i]] = "absent" THEN ItemsOf(f, i + 1)
    ELSE <<RegistryItem(TaskNames[i], PlanMetadata("P1", SubtaskNames[i]),
                        f[SubtaskNames[i]])>> \o ItemsOf(f, i + 1)

\* entries that must not count as completions of plan P1: a ready entry of
\* another plan, one whose metadata is no dict, one with no subtaskId
ForeignItems ==
    <<RegistryItem("P2-S1", PlanMetadata("P2", "S1"), "ready"),
      RegistryItem("fallback", [is_dict |-> FALSE], "ready"),
      RegistryItem("P1-x", PlanMetadata("P1", None), "ready")>>

EntryStatuses == {"absent", "running", "ready"}

\* the empty registry, and every registry made of the foreign entries and
\* of one entry, or none, per subtask name
Registries ==
    {<<>>} \cup {ForeignItems \o ItemsOf(f, 1) : f \in [IdPool -> EntryStatuses]}

\* the payloads whose subtasks are named S1..Sn, in this order, and list no
\* dependency twice
DispatchPayloads ==
    LET lists == {l \in SeqsUpTo(IdPool, MaxDeps) : Len(l) = Cardinality(Range(l))}
    IN UNION {{[planId |-> "P1",
                subtasks |-> [i \in 1..n |->
                                [id |-> SubtaskNames[i], depends_on |-> g[i]]]] :
                  g \in [1..n -> lists]} : n \in 1..MaxSubtasks}

\* the plans Plan.from_dict makes of them: every DAG on up to MaxSubtasks
\* nodes
DispatchPlans ==
    {from_dict(d) : d \in {x \in DispatchPayloads : from_dict(x).ok}}

InitDispatch ==
    /\ plan \in DispatchPlans
    /\ payload = [planId |-> plan.plan_id, subtasks |-> plan.subtasks]
    /\ ordered = Unsorted
    /\ \E done \in SUBSET Range(subtask_ids(plan.subtasks)) :
          /\ dispatchState = [d \in done |-> Queued(TaskNames[IndexOf(SubtaskNames, d)])]
          /\ sidecars = archive_subtasks(plan, dispatchState)
    /\ queueDir = <<>>
    /\ registry = <<>>
    /\ call = NoCall
    /\ pr = NoPR
    /\ analysis = NoAnalysis
    /\ clean = NoVerdict
    /\ tasksDir = <<>>
    /\ backend = "tmux"
    /\ AtRest({})
    /\ disk = NoDisk

DispatchCall(registry_items) ==
    /\ call.n < MaxCalls
    /\ \E r \in {dispatch_ready_subtasks(plan, BaseDir(dispatchState, sidecars, queueDir),
                                          registry_items)} :
          /\ dispatchState' = r.dispatched
          /\ sidecars' = r.sidecars
          /\ queueDir' = r.queue
          /\ call' = [n |-> call.n + 1,
                      registry_items |-> registry_items,
                      previous_items |-> call.registry_items,
                      dispatched_before |-> dispatchState,
                      queue_before |-> queueDir,
                      queued_paths |-> r.queued_paths]
    /\ ordered' = topologically_sorted_subtasks(plan)
    /\ UNCHANGED <<agentVars, watchVars, ioVars, toolVars, payload, plan, registry, checkVars, systemVars>>

(***************************************************************************)
(* SpecPlan: parse a payload, then sort the accepted plan.                  *)
(***************************************************************************)
InitPlan ==
    /\ payload \in Payloads
    /\ plan = NoPlan
    /\ ordered = Unsorted
    /\ dispatchState = <<>>
    /\ sidecars = <<>>
    /\ queueDir = <<>>
    /\ registry = <<>>
    /\ call = NoCall
    /\ pr = NoPR
    /\ analysis = NoAnalysis
    /\ clean = NoVerdict
    /\ tasksDir = <<>>
    /\ backend = "tmux"
    /\ AtRest({})
    /\ disk = NoDisk

ParsePlan ==
    /\ plan = NoPlan
    /\ plan' = from_dict(payload)
    /\ UNCHANGED <<agentVars, watchVars, ioVars, toolVars, payload, ordered, fileVars, call, checkVars, systemVars>>

SortPlan ==
    /\ IsPlan(plan)
    /\ ordered = Unsorted
    /\ ordered' = topologically_sorted_subtasks(plan)
    /\ UNCHANGED <<agentVars, watchVars, ioVars, toolVars, payload, plan, fileVars, call, checkVars, systemVars>>

vars == <<planVars, fileVars, call, checkVars, toolVars, ioVars, watchVars, agentVars,
          systemVars>>

NextPlan == ParsePlan \/ SortPlan

SpecPlan == InitPlan /\ [][NextPlan]_vars

NextDispatch == \E registry_items \in Registries : DispatchCall(registry_items)

SpecDispatch == InitDispatch /\ [][NextDispatch]_vars

(***************************************************************************)
(* SpecChecks: analyze_checks on every PR whose statusCheckRollup has up to *)
(* MaxChecks checks.                                                        *)
(***************************************************************************)
MaxChecks == 2

CheckUniverse ==
    [name : {"build", ""},
     context : {"ci", ""},
     status : {"", "QUEUED", "IN_PROGRESS", "COMPLETED", "completed"},
     conclusion : {"", "SUCCESS", "NEUTRAL", "FAILURE", "CANCELLED",
                   "TIMED_OUT", "ACTION_REQUIRED", "failure"}]

\* mergeable as gh prints it (a bool or an enumeration name), missing, and
\* in other spellings
MergeableUniverse ==
    {PyTrue, PyFalse, None, "true", "True", "TRUE", "false", "mergeable",
     "MERGEABLE", "Mergeable", "CONFLICTING", "UNKNOWN", ""}

MergeStateUniverse ==
    {None, "", "CLEAN", "clean", "Clean", "DIRTY", "dirty", "BLOCKED", "UNSTABLE"}

\* every rollup on a clean PR, and every merge state under one passed check
InitChecks ==
    /\ pr \in {PullRequest("OPEN", "MERGEABLE", "CLEAN", rollup) :
                  rollup \in SeqsUpTo(CheckUniverse, MaxChecks)}
            \cup {PullRequest("OPEN", mergeable, status,
                              <<[name |-> "build", context |-> "",
                                 status |-> "COMPLETED", conclusion |-> "SUCCESS"]>>) :
                     mergeable \in MergeableUniverse, status \in MergeStateUniverse}
    /\ analysis = NoAnalysis
    /\ clean = NoVerdict
    /\ tasksDir = <<>>
    /\ payload = [planId |-> "P1", subtasks |-> <<>>]
    /\ plan = NoPlan
    /\ ordered = Unsorted
    /\ dispatchState = <<>>
    /\ sidecars = <<>>
    /\ queueDir = <<>>
    /\ registry = <<>>
    /\ call = NoCall
    /\ backend = "tmux"
    /\ AtRest({})
    /\ disk = NoDisk

AnalyzeChecks ==
    /\ analysis = NoAnalysis
    /\ analysis' = analyze_checks(pr)
    /\ UNCHANGED <<agentVars, watchVars, ioVars, toolVars, pr, clean, planVars, fileVars, call, systemVars>>

MergeClean ==
    /\ clean = NoVerdict
    /\ clean' = [done |-> TRUE, value |-> merge_clean(pr)]
    /\ UNCHANGED <<agentVars, watchVars, ioVars, toolVars, pr, analysis, planVars, fileVars, call, systemVars>>

NextChecks == AnalyzeChecks \/ MergeClean

SpecChecks == InitChecks /\ [][NextChecks]_vars

(***************************************************************************)
(* Spec: the running system.  The dispatcher is invoked on the plan file,   *)
(* the spawner polls the queue, the supervisor ticks, agents exit, and the  *)
(* spawner may crash and be restarted.  Every access to a file is one step. *)
(***************************************************************************)
\* a run has up to MaxCrashes crashes of the spawner, or up to MaxFailures
\* looks of the supervisor at failed checks
MaxCrashes == 1
MaxFailures == 4

RECURSIVE SumOver(_, _)
SumOver(f, S) ==
    IF S = {} THEN 0
    ELSE LET x == CHOOSE y \in S : TRUE IN f[x] + SumOver(f, S \ {x})
Sum(f) == SumOver(f, DOMAIN f)

\* how often the supervisor has found the checks of a PR failed
FailuresSeen ==
    Sum(respawns) + Sum(notified["blocked"]) + Sum(notified["restart_failed"])

\* two subtasks without dependency, and the chain S1 <- S2 <- S3
SystemPayloads ==
    {[planId |-> "P1",
      subtasks |-> <<[id |-> "S1", depends_on |-> <<>>],
                     [id |-> "S2", depends_on |-> <<>>]>>],
     [planId |-> "P1",
      subtasks |-> <<[id |-> "S1", depends_on |-> <<>>],
                     [id |-> "S2", depends_on |-> <<"S1">>],
                     [id |-> "S3", depends_on |-> <<"S2">>]>>]}

SystemTaskIds(p) == {execution_task_id(p, p.subtasks[i]) : i \in 1..Len(p.subtasks)}

Drop(d, k) == [x \in DOMAIN d \ {k} |-> d[x]]

Init ==
    /\ payload \in SystemPayloads
    /\ plan = from_dict(payload)
    /\ ordered = Unsorted
    /\ dispatchState = <<>>
    /\ sidecars = <<>>
    /\ queueDir = <<>>
    /\ registry = <<>>
    /\ call = NoCall
    /\ pr = NoPR
    /\ analysis = NoAnalysis
    /\ clean = NoVerdict
    /\ tasksDir = <<>>
    /\ backend \in {"tmux", "process"}
    /\ AtRest(SystemTaskIds(plan))
    /\ disk = NoDisk

\* ---- dispatch.py: dispatch_plan_file without watch, or one round of
\* watch_and_dispatch
DispatchPlanFile ==
    /\ \E r \in {dispatch_ready_subtasks(
                    plan,
                    BaseDir(dispatchState, archive_subtasks(plan, sidecars), queueDir),
                    registry)} :
          /\ dispatchState' = r.dispatched
          /\ sidecars' = r.sidecars
          /\ queueDir' = r.queue
    /\ UNCHANGED <<agentVars, watchVars, ioVars, toolVars, planVars, registry, call, checkVars, systemVars>>

\* ---- zoe-daemon.py
\* sorted(QUEUE.glob("*.json")): the file names in TaskNames sort in the
\* order of TaskNames
sorted_glob(queue_files) == SelectSeq(TaskNames, LAMBDA f : f \in DOMAIN queue_files)

\* the for loop of main moves on to the next file of its glob, or sleeps
NextFile(files) ==
    [pc |-> IF Tail(files) = <<>> THEN "idle" ELSE "read",
     files |-> Tail(files), task |-> NoTask, reg |-> <<>>, item |-> NoTask]

\* d.get(k, default)
Get(d, k, default) == IF k \in DOMAIN d THEN d[k] ELSE default

\* int(task.get("maxAttempts", 3)): no queue file of the dispatcher has
\* the key
DefaultMaxAttempts == 3

\* the JSON value under "maxAttempts" in a queue file: a number or null
JsonNumber(n) == [json |-> "number", value |-> n]
JsonNull == [json |-> "null", value |-> 0]
max_attempts_of(task) == Get(task, "maxAttempts", JsonNumber(DefaultMaxAttempts))

\* sanitize_branch_component(value), on the strings that occur here: a
\* string of letters, digits, "-" and "_" comes back as it is
sanitize_branch_component(value) ==
    CASE value = "" -> "task"
      [] OTHER -> value

\* resolve_branch(task): the prefix and the component of the branch name
resolve_branch(task) ==
    IF /\ Get(metadata_of(task), "worktreeStrategy", None) = "shared"
       /\ Get(metadata_of(task), "planId", None) # None
    THEN [prefix |-> "plan",
          component |-> sanitize_branch_component(metadata_of(task).planId)]
    ELSE [prefix |-> "feat", component |-> sanitize_branch_component(task.id)]

BranchName(branch) == branch.prefix \o "/" \o branch.component

\* create_worktree(repo_root, branch): WORKTREES / branch.replace("/", "-")
create_worktree(branch) == branch.prefix \o "-" \o branch.component

\* compile_prompt(task, wt_dir): the template prompt of the task
compile_prompt(task) == "compiled prompt of " \o task.id

\* task.get("prompt") or compile_prompt(task, wt_dir)
prompt_of(task) ==
    IF Get(task, "prompt", None) \notin {None, ""} THEN task.prompt
    ELSE compile_prompt(task)

\* runner_for_agent(agent), for the two agents it knows
AGENT_RUNNER_CODEX == "agents/run-codex-agent.sh"
AGENT_RUNNER_CLAUDE == "agents/run-claude-agent.sh"
runner_for_agent(agent) ==
    IF agent = "codex" THEN AGENT_RUNNER_CODEX ELSE AGENT_RUNNER_CLAUDE

\* the files of a worktree directory, and path.write_text(content)
FilesOf(trees, dir) == IF dir \in DOMAIN trees THEN trees[dir] ELSE <<>>
WriteFile(trees, dir, name, content) ==
    Put(trees, dir, Put(FilesOf(trees, dir), name, content))

\* the item spawn_agent returns
spawn_agent(task, execution_mode) ==
    [id |-> task.id, status |-> "running", attempts |-> 0,
     maxAttempts |-> max_attempts_of(task).value,
     pr |-> None, prUrl |-> None, completedAt |-> None, note |-> None,
     lastFailure |-> None, executionMode |-> execution_mode,
     agent |-> Get(task, "agent", "codex"),
     branch |-> BranchName(resolve_branch(task)),
     worktree |-> create_worktree(resolve_branch(task)),
     metadata |-> task.metadata]

SpawnerPoll ==
    /\ spawner.pc = "idle"
    /\ \E files \in {sorted_glob(queueDir)} :
          spawner' = [IdleSpawner EXCEPT !.pc = IF files = <<>> THEN "idle" ELSE "read",
                                         !.files = files]
    /\ UNCHANGED <<agentVars, watchVars, ioVars, toolVars, planVars, fileVars, call, checkVars, monitor, notified_ready,
                   worldVars, histVars>>

\* the test of the registry left out
already_tracked_Never(reg, task) == FALSE

\* any(x.get("id") == task["id"] for x in reg)
already_tracked(reg, task) == \E i \in 1..Len(reg) : reg[i].id = task.id

\* read the queue file (without id or repo it is left where it is), load
\* the registry, drop the file of a tracked id
SpawnerRead ==
    /\ spawner.pc = "read"
    /\ LET p == Head(spawner.files)
       IN IF p \notin DOMAIN queueDir
          THEN /\ spawner' = NextFile(spawner.files)
               /\ UNCHANGED queueDir
          ELSE IF "id" \notin DOMAIN queueDir[p] \/ "repo" \notin DOMAIN queueDir[p]
          THEN /\ spawner' = NextFile(spawner.files)
               /\ UNCHANGED queueDir
          ELSE IF already_tracked(registry, queueDir[p])
          THEN /\ queueDir' = Drop(queueDir, p)
               /\ spawner' = NextFile(spawner.files)
          ELSE /\ spawner' = [spawner EXCEPT !.pc = "spawn",
                                             !.task = queueDir[p],
                                             !.reg = registry]
               /\ UNCHANGED queueDir
    /\ UNCHANGED <<agentVars, watchVars, ioVars, toolVars, planVars, dispatchState, sidecars, registry, call, checkVars,
                   monitor, notified_ready, worldVars, histVars>>

\* what spawn_agent has done when it reaches the given point: the worktree
\* is there and prompt.txt is written before the runner is looked for
PromptWritten(task) ==
    WriteFile(worktrees, create_worktree(resolve_branch(task)), "prompt.txt",
              prompt_of(task))

Launched(task) ==
    [runs EXCEPT ![task.id] =
        [runner |-> runner_for_agent(Get(task, "agent", "codex")),
         prompt |-> "prompt.txt", mode |-> backend]]

\* spawn_agent starts the runner: under tmux only when no session of this
\* name exists
SpawnerSpawn ==
    /\ spawner.pc = "spawn"
    /\ ~(backend = "tmux" /\ runtime[spawner.task.id] = "alive")
    /\ Get(spawner.task, "agent", "codex") \in {"codex", "claude"}
    /\ max_attempts_of(spawner.task).json = "number"
    /\ worktrees' = PromptWritten(spawner.task)
    /\ runs' = Launched(spawner.task)
    /\ runtime' = [runtime EXCEPT ![spawner.task.id] = "alive"]
    /\ launches' = [launches EXCEPT ![spawner.task.id] = @ + 1]
    /\ spawner' = [spawner EXCEPT !.pc = "save",
                                  !.item = spawn_agent(spawner.task, backend)]
    /\ UNCHANGED <<watchVars, ioVars, toolVars, planVars, fileVars, call, checkVars, monitor, notified_ready,
                   backend, respawns, notified, crashes>>

\* spawn_agent raises and the queue file stays: the repository is missing
\* or git fails (nothing written); the runner is missing or the agent is
\* not supported, the tmux session exists or the launch fails (prompt.txt
\* written); int(maxAttempts) fails (prompt.txt written, runner started)
SpawnerSpawnFails(stage) ==
    /\ spawner.pc = "spawn"
    /\ stage = "item" =>
          /\ max_attempts_of(spawner.task).json = "null"
          /\ Get(spawner.task, "agent", "codex") \in {"codex", "claude"}
          /\ ~(backend = "tmux" /\ runtime[spawner.task.id] = "alive")
    /\ worktrees' = IF stage = "repo" THEN worktrees ELSE PromptWritten(spawner.task)
    /\ runs' = IF stage = "item" THEN Launched(spawner.task) ELSE runs
    /\ runtime' = IF stage = "item"
                  THEN [runtime EXCEPT ![spawner.task.id] = "alive"]
                  ELSE runtime
    /\ launches' = IF stage = "item"
                   THEN [launches EXCEPT ![spawner.task.id] = @ + 1]
                   ELSE launches
    /\ spawner' = NextFile(spawner.files)
    /\ UNCHANGED <<watchVars, ioVars, toolVars, planVars, fileVars, call, checkVars, monitor, notified_ready,
                   backend, respawns, notified, crashes>>

SpawnStages == {"repo", "runner", "launch", "item"}

\* reg.append(item); save_registry(reg)
SpawnerSave ==
    /\ spawner.pc = "save"
    /\ registry' = Append(spawner.reg, spawner.item)
    /\ spawner' = [spawner EXCEPT !.pc = "unlink"]
    /\ UNCHANGED <<agentVars, watchVars, ioVars, toolVars, planVars, dispatchState, sidecars, queueDir, call, checkVars,
                   monitor, notified_ready, worldVars, histVars>>

\* p.unlink(missing_ok=True)
SpawnerUnlink ==
    /\ spawner.pc = "unlink"
    /\ queueDir' = Drop(queueDir, Head(spawner.files))
    /\ spawner' = NextFile(spawner.files)
    /\ UNCHANGED <<agentVars, watchVars, ioVars, toolVars, planVars, dispatchState, sidecars, registry, call, checkVars,
                   monitor, notified_ready, worldVars, histVars>>

\* the spawner dies between two steps and is started again
SpawnerCrash ==
    /\ spawner.pc # "idle"
    /\ crashes < MaxCrashes
    /\ FailuresSeen = 0
    /\ crashes' = crashes + 1
    /\ spawner' = IdleSpawner
    /\ UNCHANGED <<agentVars, watchVars, ioVars, toolVars, planVars, fileVars, call, checkVars, monitor, notified_ready,
                   worldVars, launches, respawns, notified>>

\* ---- the agent runner ends by itself
AgentExits(id) ==
    /\ runtime[id] = "alive"
    /\ runtime' = [runtime EXCEPT ![id] = "exited"]
    /\ UNCHANGED <<agentVars, watchVars, ioVars, toolVars, planVars, fileVars, call, checkVars, procVars, backend, histVars>>

\* ---- monitor.py
Check(status, conclusion) ==
    [name |-> "build", context |-> "", status |-> status, conclusion |-> conclusion]

PendingPR == PullRequest("OPEN", "MERGEABLE", "CLEAN", <<Check("IN_PROGRESS", "")>>)
FailedPR == PullRequest("OPEN", "MERGEABLE", "CLEAN", <<Check("COMPLETED", "FAILURE")>>)
CleanPR == PullRequest("OPEN", "MERGEABLE", "CLEAN", <<Check("COMPLETED", "SUCCESS")>>)
DirtyPR == PullRequest("OPEN", "CONFLICTING", "DIRTY", <<Check("COMPLETED", "SUCCESS")>>)
ClosedPR == PullRequest("CLOSED", "MERGEABLE", "CLEAN", <<Check("COMPLETED", "SUCCESS")>>)

\* what one look at a task shows the supervisor: the answer of gh pr view,
\* the exit status file of the runner, whether the runner can be restarted
Observation(q, exit_info, restart_ok) ==
    [looked |-> TRUE, pr |-> q, exit_info |-> exit_info, restart_ok |-> restart_ok,
     fault |-> "none"]

\* the same look, during which a call raises: gh pr view cannot be run
\* ("pr_info"), or the retry prompt cannot be written ("write_text")
Faulty(o, fault) == [o EXCEPT !.fault = fault]

Unseen ==
    [looked |-> FALSE, pr |-> NoPR, exit_info |-> "none", restart_ok |-> TRUE,
     fault |-> "none"]

Observations ==
    {Observation(NoPR, e, TRUE) : e \in {"none", "zero", "nonzero"}}
        \cup {Observation(q, "none", TRUE) :
                 q \in {PendingPR, FailedPR, CleanPR, DirtyPR, ClosedPR}}
        \cup {Observation(FailedPR, "none", FALSE)}

\* the looks of the running system: no PR yet, checks pending, checks failed,
\* and checks passed on a clean merge
SystemObservations ==
    {Observation(q, "none", TRUE) : q \in {NoPR, PendingPR, FailedPR, CleanPR}}

\* the status test with needs_rebase let through
Active_WithRebase(t) == t.status \in {"running", "pr_created", "needs_rebase"}

\* status in ("running", "pr_created")
Active(t) == t.status \in {"running", "pr_created"}

Notify(sent, kind, id) == [sent EXCEPT ![kind][id] = @ + 1]

\* worktree / f"prompt.retry{retry_n}.txt"
retry_prompt_name(retry_n) == "prompt.retry" \o ToString(retry_n) \o ".txt"

\* base_prompt + "\n\n" + f"RERUN DIRECTIVE (Retry #{retry_n}):\n" + ...
retry_prompt(base_prompt, retry_n) ==
    base_prompt \o " RERUN DIRECTIVE (Retry #" \o ToString(retry_n) \o ")"

\* f"retry #{retry_n} triggered"
retry_note(retry_n) == "retry #" \o ToString(retry_n) \o " triggered"

\* restart_codex_agent(task, worktree, prompt_filename): the command it
\* starts, under tmux or as a process as the entry's executionMode says
RUNNER_CODEX == "agents/run-codex-agent.sh"
restart_codex_agent(task, prompt_filename) ==
    [runner |-> RUNNER_CODEX, prompt |-> prompt_filename,
     mode |-> task.executionMode]

\* the state of the PR not looked at
pr_is_open_Always(q) == TRUE

\* (pr.get("state") or "").upper() == "OPEN"
pr_is_open(q) == Upper(q.state) = "OPEN"

\* the test without the status
runtime_gone_AnyStatus(t, alive) == ~alive

\* if not alive and t.get("status") == "running"
runtime_gone(t, alive) == ~alive /\ t.status = "running"

\* the body of the for loop of main for one entry t, given what the
\* supervisor sees (o); acc holds the entries handled so far and the
\* supervisor's effects
MonitorEntry(t, o, acc) ==
    LET q == o.pr
        alive == acc.runtime[t.id] = "alive"
        found == q.exists /\ t.status = "running"
        t1 == IF found
              THEN [t EXCEPT !.status = "pr_created", !.pr = q.number, !.prUrl = q.url]
              ELSE t
        a == IF q.exists THEN analyze_checks(q) ELSE NoAnalysis
        Keep(e, changed) ==
            [acc EXCEPT !.items = Append(@, e),
                        !.seen = Append(@, o),
                        !.changed = @ \/ changed]
        Told(e, kind) ==
            [Keep(e, TRUE) EXCEPT !.notified = Notify(@, kind, t.id)]
        \* except Exception as exc: the entry as it is at that point
        Raised(e) ==
            Keep([e EXCEPT !.status = "blocked", !.note = "monitor error"], TRUE)
    IN IF ~Active(t)
       THEN [acc EXCEPT !.items = Append(@, t), !.seen = Append(@, Unseen)]
       ELSE IF t.id = None \/ t.worktree \notin DOMAIN acc.worktrees \/ t.branch = ""
       THEN Keep([t EXCEPT !.status = "blocked",
                           !.note = "invalid task record (missing id/worktree/branch)"],
                 TRUE)
       ELSE IF o.fault = "pr_info" THEN Raised(t)
       ELSE IF ~q.exists
       THEN IF runtime_gone(t, alive)
            THEN CASE o.exit_info = "zero" ->
                        Keep([t EXCEPT !.completedAt = "finishedAt",
                                       !.status = "agent_exited",
                                       !.note = "agent process exited cleanly before opening a PR"],
                             TRUE)
                   [] o.exit_info = "nonzero" ->
                        Told([t EXCEPT !.completedAt = "finishedAt",
                                       !.status = "agent_failed",
                                       !.note = "agent exited with code"],
                             "agent_failed")
                   [] OTHER ->
                        Told([t EXCEPT !.status = "agent_dead",
                                       !.note = IF t.executionMode = "process"
                                                THEN "background process not found"
                                                ELSE "tmux session not found"],
                             "agent_dead")
            ELSE Keep(t, FALSE)
       ELSE IF ~pr_is_open(q) THEN Keep(t1, found)
       ELSE IF a.pending THEN Keep(t1, found)
       ELSE IF a.passed /\ merge_clean(q)
       THEN IF t.id \notin acc.notified_ready
            THEN [Told([t1 EXCEPT !.status = "ready",
                                  !.completedAt = "now",
                                  !.note = "checks passed and mergeable clean"],
                       "ready")
                    EXCEPT !.notified_ready = @ \cup {t.id}]
            ELSE Keep(t1, found)
       ELSE IF a.passed /\ ~merge_clean(q)
       THEN IF t1.status # "needs_rebase"
            THEN Told([t1 EXCEPT !.status = "needs_rebase",
                                 !.note = "merge not clean"],
                      "needs_rebase")
            ELSE Keep(t1, found)
       ELSE IF a.failure_summary # None
       THEN LET t2 == [t1 EXCEPT !.lastFailure = a.failure_summary]
                attempts == t2.attempts
                max_attempts == t2.maxAttempts
                retry_n == attempts + 1
                base_prompt == Get(FilesOf(acc.worktrees, t.worktree), "prompt.txt", "")
                written == [worktrees |->
                              WriteFile(acc.worktrees, t.worktree,
                                        retry_prompt_name(retry_n),
                                        retry_prompt(base_prompt, retry_n))]
            IN IF attempts >= max_attempts
               THEN IF t2.status # "blocked"
                    THEN Told([t2 EXCEPT !.status = "blocked",
                                         !.note = "max retries reached"],
                              "blocked")
                    ELSE Keep(t2, found)
               ELSE IF o.fault = "write_text" THEN Raised(t2)
               ELSE IF ~o.restart_ok
               THEN [Told([t2 EXCEPT !.status = "blocked",
                                     !.note = "failed to restart agent"],
                          "restart_failed")
                       EXCEPT !.runtime[t.id] = "exited",
                              !.worktrees = written.worktrees]
               ELSE [Told([t2 EXCEPT !.attempts = retry_n,
                                     !.status = "running",
                                     !.note = retry_note(retry_n)],
                          "retry")
                       EXCEPT !.runtime[t.id] = "alive",
                              !.respawns[t.id] = @ + 1,
                              !.worktrees = written.worktrees,
                              !.runs[t.id] =
                                  restart_codex_agent(t, retry_prompt_name(retry_n))]
       ELSE Keep(t1, found)

RECURSIVE MonitorEntries_Abort(_, _, _)
\* the loop without the try around its body: the first call that raises
\* ends the tick, and nothing is saved
MonitorEntries_Abort(items, obs, acc) ==
    IF Len(acc.items) = Len(items) THEN acc
    ELSE LET i == Len(acc.items) + 1
         IN IF obs[i].fault # "none" /\ Active(items[i])
            THEN [acc EXCEPT !.items = @ \o SubSeq(items, i, Len(items)),
                             !.seen = @ \o [j \in 1..(Len(items) - i + 1) |-> Unseen],
                             !.changed = FALSE]
            ELSE MonitorEntries_Abort(items, obs, MonitorEntry(items[i], obs[i], acc))

RECURSIVE MonitorEntries(_, _, _)
\* for t in items, from entry i on
MonitorEntries(items, obs, acc) ==
    IF Len(acc.items) = Len(items) THEN acc
    ELSE LET i == Len(acc.items) + 1
         IN MonitorEntries(items, obs, MonitorEntry(items[i], obs[i], acc))

\* items = load_registry(); changed = False
MonitorLoad ==
    /\ monitor.pc = "idle"
    /\ monitor' = [IdleMonitor EXCEPT !.pc = "loop", !.items = registry]
    /\ UNCHANGED <<agentVars, watchVars, ioVars, toolVars, planVars, fileVars, call, checkVars, spawner, notified_ready,
                   worldVars, histVars>>

\* the for loop over items, on what the supervisor sees of each
MonitorLooks(obs) ==
    /\ monitor.pc = "loop"
    /\ \E r \in {MonitorEntries(monitor.items, obs,
                    [items |-> <<>>, seen |-> <<>>, changed |-> FALSE,
                     notified_ready |-> notified_ready, runtime |-> runtime,
                     respawns |-> respawns, notified |-> notified,
                     worktrees |-> worktrees, runs |-> runs])} :
          /\ monitor' = [pc |-> "save", items |-> r.items,
                         changed |-> r.changed, seen |-> r.seen]
          /\ notified_ready' = r.notified_ready
          /\ runtime' = r.runtime
          /\ respawns' = r.respawns
          /\ notified' = r.notified
          /\ worktrees' = r.worktrees
          /\ runs' = r.runs
    /\ UNCHANGED <<watchVars, ioVars, toolVars, planVars, fileVars, call, checkVars, spawner, backend,
                   launches, crashes>>

\* the for loop in the running system: the looks are drawn from the given
\* set, and failed checks are seen MaxFailures times at most
MonitorLoop(looks) ==
    \E obs \in [1..Len(monitor.items) -> looks] :
        /\ \A i \in 1..Len(monitor.items) :
              ~Active(monitor.items[i]) => obs[i] = Observation(NoPR, "none", TRUE)
        /\ \/ \A i \in 1..Len(monitor.items) : obs[i].pr # FailedPR
           \/ /\ crashes = 0
              /\ FailuresSeen
                   + Cardinality({i \in 1..Len(monitor.items) : obs[i].pr = FailedPR})
                     <= MaxFailures
        /\ MonitorLooks(obs)

\* if changed: save_registry(items); then sleep
MonitorSave ==
    /\ monitor.pc = "save"
    /\ registry' = IF monitor.changed THEN monitor.items ELSE registry
    /\ monitor' = IdleMonitor
    /\ UNCHANGED <<agentVars, watchVars, ioVars, toolVars, planVars, dispatchState, sidecars, queueDir, call, checkVars,
                   spawner, notified_ready, worldVars, histVars>>

Next ==
    \/ DispatchPlanFile
    \/ SpawnerPoll
    \/ SpawnerRead
    \/ SpawnerSpawn
    \/ \E stage \in SpawnStages \ {"item"} : SpawnerSpawnFails(stage)
    \/ SpawnerSave
    \/ SpawnerUnlink
    \/ SpawnerCrash
    \/ MonitorLoad
    \/ MonitorLoop(SystemObservations)
    \/ MonitorSave
    \/ \E id \in DOMAIN runtime : AgentExits(id)

Spec == Init /\ [][Next]_vars

(***************************************************************************)
(* zoe_tools.py and planner_engine.py: the tool layer.                      *)
(***************************************************************************)
\* the objectives of the model: one per branch of the planner, and one that
\* RISK_PATTERNS["secret_exfiltration"] matches ("print" ... "secret")
AuditObjective == "Audit the session cleanup"
FixObjective == "Fix the session cleanup"
RefactorObjective == "Refactor the session cleanup"
RiskyObjective == "print the secret token"

\* detect_risk_flags(objective)
detect_risk_flags(objective) ==
    IF objective = RiskyObjective THEN <<"secret_exfiltration">> ELSE <<>>

\* how a function ends: an exception leaves it, it returns a value, or it
\* keeps polling
Raise(exception) == [raised |-> exception, returns |-> FALSE]
Return(value) == [raised |-> None, returns |-> TRUE, value |-> value]
Polling == [raised |-> None, returns |-> FALSE]

\* validate_task_policy
validate_task_policy(objective) ==
    IF detect_risk_flags(objective) # <<>> THEN Raise("PolicyViolation")
    ELSE Return(detect_risk_flags(objective))

\* generate_plan_id(repo, title, requested_at_ms); the timestamp is held as
\* str() prints it
generate_plan_id(repo, title, requested_at_ms) ==
    sanitize_identifier(requested_at_ms \o "-" \o sanitize_identifier(repo)
                            \o "-" \o sanitize_identifier(Lower(title)))

\* build_plan_request: the fields the planner and save_plan use
build_plan_request(task_input) ==
    IF task_input.repo = "" \/ task_input.title = "" \/ task_input.objective = ""
    THEN Raise("InvalidPlan")
    ELSE LET plan_id == IF task_input.planId # None THEN task_input.planId
                        ELSE generate_plan_id(task_input.repo, task_input.title,
                                              task_input.requested_at)
             policy == validate_task_policy(task_input.objective)
         IN IF policy.raised # None THEN policy
            ELSE Return([planId |-> plan_id, repo |-> task_input.repo,
                         title |-> task_input.title,
                         objective |-> task_input.objective])

\* _build_task_profile on the objectives of the model, under the title
\* "Auth flow" and the systemPolicy constraint build_plan_request adds
TaskProfile(objective) ==
    [analysis_only |-> objective = AuditObjective,
     docs_only |-> FALSE,
     docs_requested |-> FALSE,
     tests_requested |-> objective # AuditObjective,
     requires_foundation_split |-> objective = RefactorObjective]

\* n subtasks S1..Sn, each depending on the one before (dependency_chain)
Chain(n) ==
    [i \in 1..n |-> [id |-> SubtaskNames[i],
                     depends_on |-> IF i = 1 THEN <<>> ELSE <<SubtaskNames[i - 1]>>]]

\* _plan_analysis_task, _plan_docs_only_task, _plan_code_change_tasks
plan_subtasks(profile) ==
    IF profile.analysis_only \/ profile.docs_only THEN Chain(1)
    ELSE Chain((IF profile.requires_foundation_split THEN 1 ELSE 0) + 1
                 + (IF profile.tests_requested THEN 1 ELSE 0)
                 + (IF profile.docs_requested THEN 1 ELSE 0))

\* Plan.from_dict with the objective the Plan carries (into plan.json and
\* into the prompt of every subtask)
PlanOf(data) ==
    CHOOSE result \in
        {IF p.ok THEN [ok |-> TRUE, plan_id |-> p.plan_id, subtasks |-> p.subtasks,
                       objective |-> data.objective]
         ELSE p : p \in {from_dict(data)}} : TRUE

\* ZoePlannerEngine.plan
ZoePlannerEngine_plan(req) ==
    PlanOf([planId |-> req.planId, objective |-> req.objective,
            subtasks |-> plan_subtasks(TaskProfile(req.objective))])

\* Plan.to_dict as plan.json holds it
to_dict(p) ==
    [kind |-> "plan", planId |-> p.plan_id, objective |-> p.objective,
     subtasks |-> p.subtasks]

\* a directory tasks/<planId>/ without files
EmptyPlanDir == [plan |-> [kind |-> "absent"], sidecars |-> <<>>, dispatched |-> <<>>]

plan_dir(p, tasks) ==
    IF p.plan_id \in DOMAIN tasks THEN tasks[p.plan_id] ELSE EmptyPlanDir

\* save_plan: plan.write_json(plan_path); archive_subtasks(plan, root)
save_plan(p, base_dir) ==
    [base_dir EXCEPT !.tasks =
        Put(@, p.plan_id,
            [plan_dir(p, @) EXCEPT !.plan = to_dict(p),
                                   !.sidecars = archive_subtasks(p, @)])]

\* what a tool function leaves on disk and how it ends
Outcome(base_dir, ended) == [base_dir |-> base_dir, ended |-> ended]

\* the plan saved before the request is validated and planned
plan_task_SaveFirst(task_input, base_dir) ==
    LET fields == [planId |-> IF task_input.planId # None THEN task_input.planId
                              ELSE generate_plan_id(task_input.repo, task_input.title,
                                                    task_input.requested_at),
                   objective |-> task_input.objective]
        draft == [ok |-> TRUE, plan_id |-> fields.planId, objective |-> fields.objective,
                  subtasks |-> plan_subtasks(TaskProfile(fields.objective))]
        req == build_plan_request(task_input)
    IN IF req.raised # None THEN Outcome(save_plan(draft, base_dir), req)
       ELSE LET p == ZoePlannerEngine_plan(req.value)
            IN IF ~p.ok THEN Outcome(save_plan(draft, base_dir), Raise(p.error))
               ELSE Outcome(save_plan(p, base_dir), Return(p))

\* plan_task; write_text on a plan file that cannot be opened raises
plan_task(task_input, base_dir) ==
    CHOOSE result \in
        {IF req.raised # None THEN Outcome(base_dir, req)
         ELSE CHOOSE planned \in
                  {IF ~p.ok THEN Outcome(base_dir, Raise(p.error))
                   ELSE IF plan_dir(p, base_dir.tasks).plan.kind = "unreadable"
                   THEN Outcome(base_dir, Raise("PermissionError"))
                   ELSE Outcome(save_plan(p, base_dir), Return(p)) :
                      p \in {ZoePlannerEngine_plan(req.value)}} : TRUE :
            req \in {build_plan_request(task_input)}} : TRUE

\* load_plan: the plan file of the directory tasks/<plan_file>/
load_plan(plan_file, tasks) ==
    LET file == IF plan_file \in DOMAIN tasks THEN tasks[plan_file].plan
                ELSE [kind |-> "absent"]
    IN CASE file.kind = "absent" -> Raise("InvalidPlan")
         [] file.kind = "garbage" -> Raise("InvalidPlan")
         [] file.kind = "unreadable" -> Raise("PermissionError")
         [] OTHER -> CHOOSE result \in
                         {IF p.ok THEN Return(p) ELSE Raise(p.error) :
                             p \in {PlanOf(file)}} : TRUE

\* dispatch_plan_file; under watch, watch_and_dispatch returns once every
\* subtask is in the dispatch state and polls otherwise
dispatch_plan_file(plan_file, base_dir, watch) ==
    CHOOSE result \in
        {IF loaded.raised # None THEN Outcome(base_dir, loaded)
         ELSE CHOOSE dispatched \in
                  {LET p == loaded.value
                       after == [base_dir EXCEPT
                                   !.tasks = Put(@, p.plan_id,
                                                 [plan_dir(p, @) EXCEPT
                                                     !.sidecars = r.sidecars,
                                                     !.dispatched = r.dispatched]),
                                   !.queue = r.queue]
                   IN IF watch /\ Cardinality(DOMAIN r.dispatched) # Len(p.subtasks)
                      THEN Outcome(after, Polling)
                      ELSE Outcome(after, Return(r.queued_paths)) :
                      r \in {dispatch_ready_subtasks(
                                 loaded.value,
                                 BaseDir(plan_dir(loaded.value, base_dir.tasks).dispatched,
                                         archive_subtasks(
                                             loaded.value,
                                             plan_dir(loaded.value, base_dir.tasks).sidecars),
                                         base_dir.queue),
                                 base_dir.registry)}} : TRUE :
            loaded \in {load_plan(plan_file, base_dir.tasks)}} : TRUE

\* dispatch_plan
dispatch_plan(plan_file, base_dir, watch) ==
    dispatch_plan_file(plan_file, base_dir, watch)

\* plan_and_dispatch_task: the plan file is the one plan_task has written
plan_and_dispatch_task(task_input, base_dir, watch) ==
    CHOOSE result \in
        {IF ~planned.ended.returns THEN planned
         ELSE dispatch_plan(planned.ended.value.plan_id, planned.base_dir, watch) :
            planned \in {plan_task(task_input, base_dir)}} : TRUE

\* task_status: the registry file holds a JSON array
task_status(task_id, plan_id, base_dir) ==
    IF task_id # None
    THEN IF \E i \in 1..Len(base_dir.registry) : base_dir.registry[i].id = task_id
         THEN Outcome(base_dir, Return("task"))
         ELSE Outcome(base_dir, Raise("PlannerError"))
    ELSE Outcome(base_dir, Return("tasks"))

\* the plan ids of the model
GeneratedPlanId == generate_plan_id("demo", "Auth flow", "1730")
\* sorted(root.iterdir(), reverse=True) on the directory names
ReverseSorted(names) == SelectSeq(<<"P1", GeneratedPlanId>>, LAMBDA d : d \in names)

RECURSIVE ListLoop(_, _, _, _)
\* the for loop of list_plans
ListLoop(tasks, paths, entries, limit) ==
    IF paths = <<>> THEN Return(entries)
    ELSE LET file == tasks[Head(paths)].plan
         IN CASE file.kind = "absent" -> ListLoop(tasks, Tail(paths), entries, limit)
              [] file.kind = "unreadable" -> Raise("PermissionError")
              [] file.kind = "garbage" -> ListLoop(tasks, Tail(paths), entries, limit)
              [] OTHER ->
                   IF Len(entries) + 1 >= limit THEN Return(Append(entries, file.planId))
                   ELSE ListLoop(tasks, Tail(paths), Append(entries, file.planId), limit)

\* list_plans
list_plans(base_dir, limit) ==
    Outcome(base_dir, ListLoop(base_dir.tasks, ReverseSorted(DOMAIN base_dir.tasks),
                               <<>>, limit))

(***************************************************************************)
(* zoe_tool_api.py: the JSON I/O mode.                                      *)
(***************************************************************************)
tool_names ==
    {"plan_task", "plan_and_dispatch_task", "dispatch_plan", "task_status", "list_plans"}

\* the subclasses of PlannerError (errors.py), PlannerError included
PlannerErrors == {"PlannerError", "OpenClawDown", "InvalidPlan", "DispatchError",
                  "PolicyViolation"}

\* int(args.get("limit", 10)) on the values of the model: no limit, the
\* number 1, the string "ten"
int_limit(limit) ==
    CASE limit = None -> Return(10)
      [] limit = "1" -> Return(1)
      [] OTHER -> Raise("ValueError")

\* _dispatch_tool_call
dispatch_tool_call(req, base_dir) ==
    IF req.tool \notin tool_names THEN Outcome(base_dir, Raise("PlannerError"))
    ELSE IF ~req.args_is_dict THEN Outcome(base_dir, Raise("PlannerError"))
    ELSE CASE req.tool = "plan_task" -> plan_task(req.args, base_dir)
           [] req.tool = "plan_and_dispatch_task" ->
                plan_and_dispatch_task(req.args, base_dir, req.args.watch)
           [] req.tool = "dispatch_plan" ->
                IF req.args.planFile = None THEN Outcome(base_dir, Raise("PlannerError"))
                ELSE dispatch_plan(req.args.planFile, base_dir, req.args.watch)
           [] req.tool = "task_status" ->
                task_status(req.args.task_id, req.args.plan_id, base_dir)
           [] OTHER ->
                LET limit == int_limit(req.args.limit)
                IN IF limit.raised # None THEN Outcome(base_dir, limit)
                   ELSE list_plans(base_dir, limit.value)

\* _success and _failure as _emit prints them; an exception that main does
\* not catch ends the process with a traceback, and a call that keeps
\* polling prints nothing
Success(n, tool) ==
    [kind |-> "response", n |-> n, ok |-> TRUE, tool |-> tool, code |-> None,
     type |-> None]
Failure(n, tool, exception, code) ==
    [kind |-> "response", n |-> n, ok |-> FALSE, tool |-> tool, code |-> code,
     type |-> exception]
Traceback(n, exception) ==
    [kind |-> "traceback", n |-> n, ok |-> FALSE, tool |-> None, code |-> None,
     type |-> exception]
Silence(n) ==
    [kind |-> "polling", n |-> n, ok |-> FALSE, tool |-> None, code |-> None,
     type |-> None]

\* main, command invoke: what it leaves on disk and what it prints
invoke(n, req, base_dir) ==
    IF ~req.is_json THEN [base_dir |-> base_dir,
                          printed |-> Failure(n, None, "PlannerError", "PLANNER_ERROR")]
    ELSE CHOOSE result \in
             {LET ended == out.ended
              IN [base_dir |-> out.base_dir,
                  printed |->
                      IF ended.returns THEN Success(n, req.tool)
                      ELSE IF ended.raised = None THEN Silence(n)
                      ELSE IF ended.raised = "PolicyViolation"
                      THEN Failure(n, req.tool, ended.raised, "POLICY_VIOLATION")
                      ELSE IF ended.raised \in PlannerErrors
                      THEN Failure(n, req.tool, ended.raised, "PLANNER_ERROR")
                      ELSE Traceback(n, ended.raised)] :
                 out \in {dispatch_tool_call(req, base_dir)}} : TRUE

(***************************************************************************)
(* SpecTools: requests handed to invoke, one after the other, on a tasks    *)
(* directory that is empty or holds an archived plan, a plan file that is   *)
(* no JSON or a plan file that cannot be read.                              *)
(***************************************************************************)
MaxInvokes == 2

NoArgs ==
    [repo |-> None, title |-> None, objective |-> None, planId |-> None,
     requested_at |-> None, watch |-> FALSE, planFile |-> None,
     task_id |-> None, plan_id |-> None, limit |-> None]

Request(tool, args) ==
    [is_json |-> TRUE, tool |-> tool, args_is_dict |-> TRUE, args |-> args]

\* the task inputs: every objective of the model and a blank one, with a
\* planId of the caller (a valid and an invalid one) and without
TaskInputs ==
    {[NoArgs EXCEPT !.repo = "demo", !.title = "Auth flow", !.objective = o,
                    !.planId = id, !.requested_at = "1730"] :
        o \in {AuditObjective, FixObjective, RefactorObjective, RiskyObjective, ""},
        id \in {None, "P1", "bad/id"}}

Requests ==
    {Request("plan_task", a) : a \in TaskInputs}
        \cup {Request("plan_and_dispatch_task", [a EXCEPT !.watch = w]) :
                 a \in TaskInputs, w \in BOOLEAN}
        \cup {Request("dispatch_plan", [NoArgs EXCEPT !.planFile = f, !.watch = w]) :
                 f \in {None, "P1", GeneratedPlanId, "P9"}, w \in BOOLEAN}
        \cup {Request("task_status", [NoArgs EXCEPT !.task_id = t]) :
                 t \in {None, "P1-S1", "P9-S1"}}
        \cup {Request("list_plans", [NoArgs EXCEPT !.limit = l]) :
                 l \in {None, "1", "ten"}}
        \cup {Request("rm", NoArgs),
              [Request("plan_task", NoArgs) EXCEPT !.args_is_dict = FALSE],
              [Request(None, NoArgs) EXCEPT !.is_json = FALSE]}

\* tasks/P1/ as plan_task leaves it for the refactoring objective
ArchivedDir ==
    save_plan(ZoePlannerEngine_plan([planId |-> "P1", objective |-> RefactorObjective]),
              [tasks |-> <<>>]).tasks

InitTools ==
    /\ tasksDir \in {<<>>, ArchivedDir,
                      [ArchivedDir EXCEPT !["P1"].plan = [kind |-> "garbage"]],
                      [ArchivedDir EXCEPT !["P1"].plan = [kind |-> "unreadable"]]}
    /\ registry \in {<<>>,
                      <<RegistryItem("P1-S1", PlanMetadata("P1", "S1"), "ready")>>}
    /\ queueDir = <<>>
    /\ payload = [planId |-> "P1", subtasks |-> <<>>]
    /\ plan = NoPlan
    /\ ordered = Unsorted
    /\ dispatchState = <<>>
    /\ sidecars = <<>>
    /\ call = NoCall
    /\ pr = NoPR
    /\ analysis = NoAnalysis
    /\ clean = NoVerdict
    /\ backend = "tmux"
    /\ AtRest({})
    /\ disk = NoDisk

\* python zoe_tool_api.py invoke, with req on stdin
Invoke(req) ==
    /\ response.n < MaxInvokes
    /\ \E r \in {invoke(response.n + 1, req,
                         [tasks |-> tasksDir, queue |-> queueDir,
                          registry |-> registry])} :
          /\ tasksDir' = r.base_dir.tasks
          /\ queueDir' = r.base_dir.queue
          /\ response' = r.printed
    /\ request' = req
    /\ UNCHANGED <<agentVars, watchVars, ioVars, planVars, dispatchState, sidecars, registry, call,
                   checkVars, spawner, monitor, notified_ready, worldVars, histVars>>

NextTools == \E req \in Requests : Invoke(req)

SpecTools == InitTools /\ [][NextTools]_vars

(***************************************************************************)
(* SpecFiles: the JSON files under AI_DEVOPS_HOME as the operating system   *)
(* holds them.  Every writer calls Path.write_text on the file itself:      *)
(* open(mode "w") truncates it, the text goes out in blocks of the buffer   *)
(* size, close ends the call.  Every reader calls Path.read_text and hands  *)
(* what it got to json.loads.  The processes share nothing but the files,   *)
(* so a read may fall between any two steps of a write.                     *)
(***************************************************************************)
\* the longest document takes MaxBlocks blocks of the write buffer
MaxBlocks == 2
\* the write_text calls of one behaviour
MaxWrites == 1

Files == {"registry", "plan", "dispatchState", "sidecar"}

\* who calls write_text on which file
WriterRoles ==
    [registry |-> {"supervisor", "spawner"},
     plan |-> {"tools"},
     dispatchState |-> {"dispatcher"},
     sidecar |-> {"dispatcher", "tools"}]

\* who calls read_text on which file
ReaderRoles ==
    [registry |-> {"supervisor", "spawner", "dispatcher", "tools"},
     plan |-> {"dispatcher", "tools"},
     dispatchState |-> {"dispatcher"},
     sidecar |-> {"dispatcher", "tools"}]

\* the JSON documents: lists of 0..MaxBlocks entries
Documents == {[i \in 1..n |-> "entry"] : n \in 0..MaxBlocks}

\* json.dumps(value, indent=2) as the blocks the buffered writer hands to
\* the operating system: "[]" is one block, every further entry of the
\* list fills one more
json_dumps(value) ==
    [i \in 1..(IF Len(value) = 0 THEN 1 ELSE Len(value)) |->
        [of |-> value, block |-> i]]

\* json.loads(text): the document whose complete text this is
json_loads(text) ==
    IF \E value \in Documents : json_dumps(value) = text
    THEN Return(CHOOSE value \in Documents : json_dumps(value) = text)
    ELSE Raise("JSONDecodeError")

InitFiles ==
    /\ disk \in [Files -> {json_dumps(value) : value \in Documents}]
    /\ tasksDir = <<>>
    /\ registry = <<>>
    /\ queueDir = <<>>
    /\ payload = [planId |-> "P1", subtasks |-> <<>>]
    /\ plan = NoPlan
    /\ ordered = Unsorted
    /\ dispatchState = <<>>
    /\ sidecars = <<>>
    /\ call = NoCall
    /\ pr = NoPR
    /\ analysis = NoAnalysis
    /\ clean = NoVerdict
    /\ backend = "tmux"
    /\ AtRest({})

\* path.write_text(json.dumps(value)): open(path, "w") truncates the file
WriteTextOpen(role, file, value) ==
    /\ writer.pc = "idle"
    /\ writer.n < MaxWrites
    /\ role \in WriterRoles[file]
    /\ disk' = [disk EXCEPT ![file] = <<>>]
    /\ writer' = [pc |-> "open", n |-> writer.n + 1, role |-> role, file |-> file,
                  previous |-> disk[file], data |-> json_dumps(value)]
    /\ UNCHANGED reader

\* the next block of the text reaches the file
WriteTextFlush ==
    /\ writer.pc = "open"
    /\ Len(disk[writer.file]) < Len(writer.data)
    /\ disk' = [disk EXCEPT ![writer.file] =
                   Append(@, writer.data[Len(@) + 1])]
    /\ UNCHANGED <<writer, reader>>

\* the whole text is out: close
WriteTextClose ==
    /\ writer.pc = "open"
    /\ disk[writer.file] = writer.data
    /\ writer' = [NoWriter EXCEPT !.n = writer.n]
    /\ UNCHANGED <<disk, reader>>

\* json.loads(path.read_text()) in a process of the given role
ReadText(role, file) ==
    /\ role \in ReaderRoles[file]
    /\ reader' = [done |-> TRUE, role |-> role, file |-> file,
                  text |-> disk[file], writing |-> writer]
    /\ UNCHANGED <<disk, writer>>

FilesUnchanged ==
    UNCHANGED <<agentVars, watchVars, planVars, fileVars, call, checkVars, toolVars, systemVars>>

NextFiles ==
    \/ \E file \in Files, role \in {"supervisor", "spawner", "dispatcher", "tools"},
          value \in Documents :
          WriteTextOpen(role, file, value) /\ FilesUnchanged
    \/ WriteTextFlush /\ FilesUnchanged
    \/ WriteTextClose /\ FilesUnchanged
    \/ \E file \in Files, role \in {"supervisor", "spawner", "dispatcher", "tools"} :
          ReadText(role, file) /\ FilesUnchanged

SpecFiles == InitFiles /\ [][NextFiles]_vars

(***************************************************************************)
(* SpecLive: the supervisor on a registry of one running task, the agent    *)
(* of that task and its PR on the hosting service.  What the supervisor     *)
(* sees on a tick is what gh pr view and the runtime show at that moment.   *)
(* The supervisor's steps are weakly fair (while True ... time.sleep(30)),  *)
(* every agent opens a PR or ends, and pending checks finish.               *)
(***************************************************************************)
LiveTask == "P1-S1"

InitLive ==
    /\ registry = <<RegistryItem(LiveTask, PlanMetadata("P1", "S1"), "running")>>
    /\ runtime = [id \in {LiveTask} |-> "alive"]
    /\ worktrees = WriteFile(<<>>, "feat-" \o LiveTask, "prompt.txt",
                             compile_prompt([id |-> LiveTask]))
    /\ runs = [id \in {LiveTask} |->
                 [runner |-> AGENT_RUNNER_CODEX, prompt |-> "prompt.txt",
                  mode |-> "tmux"]]
    /\ pr = NoPR
    /\ backend \in {"tmux", "process"}
    /\ payload = [planId |-> "P1", subtasks |-> <<>>]
    /\ plan = NoPlan
    /\ ordered = Unsorted
    /\ dispatchState = <<>>
    /\ sidecars = <<>>
    /\ queueDir = <<>>
    /\ tasksDir = <<>>
    /\ call = NoCall
    /\ analysis = NoAnalysis
    /\ clean = NoVerdict
    /\ disk = NoDisk
    /\ watching = NoWatch
    /\ writer = NoWriter
    /\ reader = NoReader
    /\ request = NoRequest
    /\ response = NoResponse
    /\ spawner = IdleSpawner
    /\ monitor = IdleMonitor
    /\ notified_ready = {}
    /\ launches = [id \in {LiveTask} |-> 1]
    /\ respawns = [id \in {LiveTask} |-> 0]
    /\ notified = [k \in NotificationKinds |-> [id \in {LiveTask} |-> 0]]
    /\ crashes = 0

WorldUnchanged ==
    UNCHANGED <<agentVars, watchVars, ioVars, toolVars, planVars, fileVars, call, analysis, clean,
                procVars, backend, histVars>>

\* the agent pushes its branch and opens the PR; the checks start
AgentOpensPR(id) ==
    /\ runtime[id] = "alive"
    /\ pr = NoPR
    /\ pr' = PendingPR
    /\ UNCHANGED runtime
    /\ WorldUnchanged

\* a restarted agent pushes a fix to the same branch and ends; the checks
\* of the PR start again
AgentPushes(id) ==
    /\ runtime[id] = "alive"
    /\ pr = FailedPR
    /\ pr' = PendingPR
    /\ runtime' = [runtime EXCEPT ![id] = "exited"]
    /\ WorldUnchanged

\* the checks of the PR complete
ChecksFinish ==
    /\ pr = PendingPR
    /\ pr' \in {FailedPR, CleanPR, DirtyPR}
    /\ UNCHANGED runtime
    /\ WorldUnchanged

\* somebody closes or merges the PR
PRCloses ==
    /\ pr.exists
    /\ pr.state = "OPEN"
    /\ \E state \in {"CLOSED", "MERGED"} : pr' = [pr EXCEPT !.state = state]
    /\ UNCHANGED runtime
    /\ WorldUnchanged

\* the for loop of main on what gh pr view, the exit status file and the
\* agent runner show at this moment
MonitorTick ==
    \E exit_info \in {"none", "zero", "nonzero"}, restart_ok \in BOOLEAN :
        /\ exit_info # "none" => \E id \in DOMAIN runtime : runtime[id] = "exited"
        /\ MonitorLoop({Observation(pr, exit_info, restart_ok),
                        Observation(NoPR, "none", TRUE)})
        /\ \A i \in 1..Len(monitor.items) :
              Active(monitor.items[i]) =>
                  monitor'.seen[i] = Observation(pr, exit_info, restart_ok)

NextLive ==
    \/ MonitorLoad
    \/ MonitorTick
    \/ MonitorSave
    \/ \E id \in DOMAIN runtime : AgentOpensPR(id)
    \/ \E id \in DOMAIN runtime : AgentPushes(id)
    \/ \E id \in DOMAIN runtime : AgentExits(id)
    \/ ChecksFinish
    \/ PRCloses

SpecLive ==
    /\ InitLive
    /\ [][NextLive]_vars
    /\ WF_vars(MonitorLoad)
    /\ WF_vars(MonitorTick)
    /\ WF_vars(MonitorSave)
    /\ WF_vars(\E id \in DOMAIN runtime : AgentOpensPR(id) \/ AgentExits(id))
    /\ WF_vars(ChecksFinish)

(***************************************************************************)
(* SpecWatch: watch mode.  The plans are the chains the planner makes and   *)
(* two independent subtasks; a plan may be dispatched without watch, be     *)
(* planned again under its id (save_plan), and be watched.  The spawner     *)
(* registers the queued tasks and the supervisor makes them ready; the      *)
(* watch loop, the spawner and the supervisor are weakly fair.              *)
(***************************************************************************)
MaxLoops == 2
MaxReplans == 1

WatchPayloads ==
    SystemPayloads \cup {[planId |-> "P1", subtasks |-> Chain(n)] : n \in 1..2}

InitWatch ==
    /\ payload \in WatchPayloads
    /\ plan = from_dict(payload)
    /\ ordered = Unsorted
    /\ dispatchState = <<>>
    /\ sidecars = <<>>
    /\ queueDir = <<>>
    /\ registry = <<>>
    /\ call = NoCall
    /\ pr = NoPR
    /\ analysis = NoAnalysis
    /\ clean = NoVerdict
    /\ tasksDir = <<>>
    /\ backend = "tmux"
    /\ AtRest(Range(TaskNames))
    /\ disk = NoDisk

\* plan_task under the plan id of the archived plan: save_plan writes the
\* new plan.json over the old one; dispatch-state.json stays
Replan ==
    /\ watching.pc = "idle"
    /\ watching.replans < MaxReplans
    /\ \E d \in WatchPayloads \ {payload} :
          /\ payload' = d
          /\ plan' = from_dict(d)
    /\ sidecars' = archive_subtasks(plan', sidecars)
    /\ watching' = [watching EXCEPT !.replans = @ + 1]
    /\ UNCHANGED <<agentVars, ioVars, toolVars, ordered, dispatchState, queueDir, registry, call,
                   checkVars, systemVars>>

\* dispatch_plan_file(plan_file, watch=True) archives the subtasks and calls
\* watch_and_dispatch(plan) without max_loops; a caller of
\* watch_and_dispatch may pass max_loops
WatchAndDispatch(capped, max_loops) ==
    /\ watching.pc = "idle"
    /\ sidecars' = IF capped THEN sidecars ELSE archive_subtasks(plan, sidecars)
    /\ watching' = [watching EXCEPT !.pc = "polling", !.capped = capped,
                              !.max_loops = max_loops, !.loops = 0,
                              !.all_queued = <<>>,
                              !.before = DOMAIN dispatchState,
                              !.subtasks = plan.subtasks]
    /\ UNCHANGED <<agentVars, ioVars, toolVars, planVars, dispatchState, queueDir, registry, call,
                   checkVars, systemVars>>

\* one round of the while loop: dispatch_ready_subtasks, load_dispatch_state,
\* the two tests, time.sleep; loops is counted where it is read, under a cap
WatchRound ==
    /\ watching.pc = "polling"
    /\ \E r \in {dispatch_ready_subtasks(
                    plan, BaseDir(dispatchState, sidecars, queueDir), registry)} :
          /\ dispatchState' = r.dispatched
          /\ sidecars' = r.sidecars
          /\ queueDir' = r.queue
          /\ watching' =
               [watching EXCEPT
                  !.all_queued = @ \o r.queued_paths,
                  !.loops = IF Cardinality(DOMAIN r.dispatched) = Len(plan.subtasks)
                               \/ ~watching.capped
                            THEN @ ELSE @ + 1,
                  !.pc = IF Cardinality(DOMAIN r.dispatched) = Len(plan.subtasks)
                         THEN "returned"
                         ELSE IF watching.capped /\ watching.loops + 1 >= watching.max_loops
                         THEN "returned"
                         ELSE "polling"]
    /\ UNCHANGED <<agentVars, ioVars, toolVars, planVars, registry, call, checkVars, systemVars>>

\* the spawner takes a queue file: it registers the task as running and
\* removes the file, or only removes the file of a tracked id
TaskRuns(p) ==
    /\ p \in DOMAIN queueDir
    /\ registry' = IF \E i \in 1..Len(registry) : registry[i].id = queueDir[p].id
                   THEN registry
                   ELSE Append(registry, spawn_agent(queueDir[p], backend))
    /\ queueDir' = Drop(queueDir, p)
    /\ worktrees' = IF \E i \in 1..Len(registry) : registry[i].id = queueDir[p].id
                    THEN worktrees
                    ELSE WriteFile(worktrees,
                                   create_worktree(resolve_branch(queueDir[p])),
                                   "prompt.txt", prompt_of(queueDir[p]))
    /\ runs' = IF \E i \in 1..Len(registry) : registry[i].id = queueDir[p].id
               THEN runs
               ELSE [runs EXCEPT ![queueDir[p].id] =
                       [runner |-> runner_for_agent(Get(queueDir[p], "agent", "codex")),
                        prompt |-> "prompt.txt", mode |-> backend]]
    /\ UNCHANGED <<watchVars, ioVars, toolVars, planVars, dispatchState, sidecars, call,
                   checkVars, systemVars>>

\* the supervisor finds the PR of a running task merge-ready
TaskReady(i) ==
    /\ i \in 1..Len(registry)
    /\ registry[i].status = "running"
    /\ registry' = [registry EXCEPT ![i].status = "ready"]
    /\ UNCHANGED <<agentVars, watchVars, ioVars, toolVars, planVars, dispatchState, sidecars, queueDir,
                   call, checkVars, systemVars>>

NextWatch ==
    \/ Replan
    \/ watching.pc = "idle" /\ DispatchPlanFile
    \/ WatchAndDispatch(FALSE, 0)
    \/ \E max_loops \in 0..MaxLoops : WatchAndDispatch(TRUE, max_loops)
    \/ WatchRound
    \/ \E p \in DOMAIN queueDir : TaskRuns(p)
    \/ \E i \in 1..Len(registry) : TaskReady(i)

SpecWatch ==
    /\ InitWatch
    /\ [][NextWatch]_vars
    /\ WF_vars(WatchRound)
    /\ WF_vars(\E p \in DOMAIN queueDir : TaskRuns(p))
    /\ WF_vars(\E i \in 1..Len(registry) : TaskReady(i))

(***************************************************************************)
(* SpecTick: the supervisor alone, tick after tick, on a registry of two   *)
(* entries.  The first entry starts in any status, with attempts used up   *)
(* or not, under either backend and with either agent; its worktree may    *)
(* be gone.  The second is a running task with one attempt left.  Each    *)
(* tick sees of each entry any of the looks below, among them a look       *)
(* during which a call raises.  Runners end at any time.                   *)
(***************************************************************************)
TickIds == <<"P1-S1", "P1-S2">>

Statuses ==
    {"running", "pr_created", "ready", "blocked", "needs_rebase",
     "agent_exited", "agent_failed", "agent_dead"}

TickEntry(id, status, attempts, mode, agent) ==
    [RegistryItem(id, PlanMetadata("P1", "S1"), status)
        EXCEPT !.attempts = attempts, !.executionMode = mode, !.agent = agent]

TickRegistries ==
    {<<TickEntry(TickIds[1], status, attempts, mode, agent),
       TickEntry(TickIds[2], "running", DefaultMaxAttempts - 1, "tmux", "codex")>> :
        status \in Statuses, attempts \in {0, DefaultMaxAttempts},
        mode \in {"tmux", "process"}, agent \in {"codex", "claude"}}

TickObservations ==
    Observations
        \cup {Faulty(Observation(NoPR, "none", TRUE), "pr_info"),
              Faulty(Observation(FailedPR, "none", TRUE), "write_text")}

InitTick ==
    /\ registry \in TickRegistries
    /\ \E state \in {"alive", "exited"} :
          runtime = [id \in Range(TickIds) |->
                        IF id = TickIds[1] THEN state ELSE "alive"]
    /\ \E there \in {Range(TickIds), {TickIds[2]}} :
          worktrees = [dir \in {"feat-" \o id : id \in there} |->
                          [name \in {"prompt.txt"} |-> "base prompt"]]
    /\ runs = [id \in Range(TickIds) |->
                 [runner |-> runner_for_agent(registry[IndexOf(TickIds, id)].agent),
                  prompt |-> "prompt.txt",
                  mode |-> registry[IndexOf(TickIds, id)].executionMode]]
    /\ backend = "tmux"
    /\ pr = NoPR
    /\ payload = [planId |-> "P1", subtasks |-> <<>>]
    /\ plan = NoPlan
    /\ ordered = Unsorted
    /\ dispatchState = <<>>
    /\ sidecars = <<>>
    /\ queueDir = <<>>
    /\ tasksDir = <<>>
    /\ call = NoCall
    /\ analysis = NoAnalysis
    /\ clean = NoVerdict
    /\ disk = NoDisk
    /\ watching = NoWatch
    /\ writer = NoWriter
    /\ reader = NoReader
    /\ request = NoRequest
    /\ response = NoResponse
    /\ spawner = IdleSpawner
    /\ monitor = IdleMonitor
    /\ notified_ready = {}
    /\ launches = [id \in Range(TickIds) |-> 1]
    /\ respawns = [id \in Range(TickIds) |-> 0]
    /\ notified = [k \in NotificationKinds |-> [id \in Range(TickIds) |-> 0]]
    /\ crashes = 0

\* the for loop of main, whatever gh, the exit status files and the file
\* system show of each entry
TickLoop ==
    \E obs \in [1..Len(monitor.items) -> TickObservations] : MonitorLooks(obs)

NextTick ==
    \/ MonitorLoad
    \/ TickLoop
    \/ MonitorSave
    \/ \E id \in DOMAIN runtime : AgentExits(id)

SpecTick == InitTick /\ [][NextTick]_vars

(***************************************************************************)
(* SpecSpawn: the spawner on a queue of two files, next to the supervisor. *)
(* Each file is the task the dispatcher writes for a subtask of plan P1,   *)
(* or that task with one field changed: the maxAttempts key added (0, 1,   *)
(* or null), the id or the repo key left out, or the agent set to claude.  *)
(* Both tasks carry the same worktree strategy.  The first task may be     *)
(* tracked in the registry already.  The supervisor sees of each entry no  *)
(* PR or a PR with failed checks.                                          *)
(***************************************************************************)
SpawnIds == <<"P1-S1", "P1-S2">>

QueueVariants ==
    {"dispatched", "attempts_zero", "attempts_one", "attempts_null",
     "no_id", "no_repo", "claude"}

WorktreeStrategies == {"shared", "isolated"}

\* the queue file build_execution_task writes for the task id
DispatchedTask(task_id, strategy) ==
    [id |-> task_id, repo |-> PlanRepo, agent |-> "codex",
     prompt |-> "prompt of " \o task_id,
     metadata |-> [is_dict |-> TRUE, planId |-> "P1", subtaskId |-> task_id,
                   plannedBy |-> "zoe", worktreeStrategy |-> strategy]]

QueueTask(task_id, strategy, variant) ==
    LET task == DispatchedTask(task_id, strategy)
    IN CASE variant = "attempts_zero" -> Put(task, "maxAttempts", JsonNumber(0))
         [] variant = "attempts_one" -> Put(task, "maxAttempts", JsonNumber(1))
         [] variant = "attempts_null" -> Put(task, "maxAttempts", JsonNull)
         [] variant = "no_id" -> Drop(task, "id")
         [] variant = "no_repo" -> Drop(task, "repo")
         [] variant = "claude" -> [task EXCEPT !.agent = "claude"]
         [] OTHER -> task

SpawnQueues ==
    {[name \in Range(SpawnIds) |->
         QueueTask(name, strategy, IF name = SpawnIds[1] THEN v1 ELSE v2)] :
        strategy \in WorktreeStrategies, v1 \in QueueVariants, v2 \in QueueVariants}

\* the entry and the worktree of a task spawned before
TrackedTask == DispatchedTask(SpawnIds[1], "isolated")

InitSpawn ==
    /\ queueDir \in SpawnQueues
    /\ backend \in {"tmux", "process"}
    /\ \E tracked \in BOOLEAN :
          /\ registry = IF tracked THEN <<spawn_agent(TrackedTask, backend)>> ELSE <<>>
          /\ runtime = [id \in Range(SpawnIds) |->
                           IF tracked /\ id = TrackedTask.id THEN "alive" ELSE "absent"]
          /\ worktrees =
                IF tracked
                THEN WriteFile(<<>>, create_worktree(resolve_branch(TrackedTask)),
                               "prompt.txt", prompt_of(TrackedTask))
                ELSE <<>>
          /\ runs = [id \in Range(SpawnIds) |->
                        IF tracked /\ id = TrackedTask.id
                        THEN [runner |-> runner_for_agent(TrackedTask.agent),
                              prompt |-> "prompt.txt", mode |-> backend]
                        ELSE NoRun]
          /\ launches = [id \in Range(SpawnIds) |->
                            IF tracked /\ id = TrackedTask.id THEN 1 ELSE 0]
    /\ respawns = [id \in Range(SpawnIds) |-> 0]
    /\ notified = [k \in NotificationKinds |-> [id \in Range(SpawnIds) |-> 0]]
    /\ crashes = 0
    /\ spawner = IdleSpawner
    /\ monitor = IdleMonitor
    /\ notified_ready = {}
    /\ watching = NoWatch
    /\ writer = NoWriter
    /\ reader = NoReader
    /\ request = NoRequest
    /\ response = NoResponse
    /\ pr = NoPR
    /\ payload = [planId |-> "P1", subtasks |-> <<>>]
    /\ plan = NoPlan
    /\ ordered = Unsorted
    /\ dispatchState = <<>>
    /\ sidecars = <<>>
    /\ tasksDir = <<>>
    /\ call = NoCall
    /\ analysis = NoAnalysis
    /\ clean = NoVerdict
    /\ disk = NoDisk

SpawnObservations ==
    {Observation(NoPR, "none", TRUE), Observation(FailedPR, "none", TRUE)}

\* spawn_agent raises at any of its stages; a file that fails after the
\* runner was started is tried MaxLaunches times at most
MaxLaunches == 2

SpawnFails ==
    /\ spawner.pc = "spawn"
    /\ \E stage \in SpawnStages :
          /\ stage = "item" => launches[spawner.task.id] < MaxLaunches
          /\ SpawnerSpawnFails(stage)

NextSpawn ==
    \/ SpawnerPoll
    \/ SpawnerRead
    \/ SpawnerSpawn
    \/ SpawnFails
    \/ SpawnerSave
    \/ SpawnerUnlink
    \/ MonitorLoad
    \/ MonitorLoop(SpawnObservations)
    \/ MonitorSave

SpecSpawn == InitSpawn /\ [][NextSpawn]_vars

(***************************************************************************)
(* SpecReaders: the registry file and the four processes that load it.     *)
(* The file is absent, holds a complete JSON list, or holds what a writer   *)
(* that died during write_text left of one; the supervisor and the spawner *)
(* write it as in SpecFiles.  Each load is recorded with what it returned   *)
(* or raised and with what became of the operation that called it.         *)
(***************************************************************************)
RegistryReaders == {"dispatcher", "spawner", "supervisor", "tools"}

\* the complete texts and their proper prefixes
RegistryTexts ==
    UNION {{SubSeq(json_dumps(value), 1, n) : n \in 0..Len(json_dumps(value))} :
              value \in Documents}

\* load_registry of dispatch.py and of monitor.py: [] when the file is not
\* there, json.loads of its text otherwise
load_registry(files) ==
    IF "registry" \notin DOMAIN files THEN Return(<<>>)
    ELSE json_loads(files["registry"])

\* load_registry of zoe-daemon.py writes "[]" into a missing file first
daemon_load_registry(files) ==
    IF "registry" \notin DOMAIN files THEN json_loads(json_dumps(<<>>))
    ELSE json_loads(files["registry"])

\* _load_registry of zoe_tools.py turns the JSONDecodeError into a
\* PlannerError
tools_load_registry(files) ==
    IF "registry" \notin DOMAIN files THEN Return(<<>>)
    ELSE IF json_loads(files["registry"]).returns
         THEN json_loads(files["registry"])
         ELSE Raise("PlannerError")

LoadedBy(role, files) ==
    CASE role = "spawner" -> daemon_load_registry(files)
      [] role = "tools" -> tools_load_registry(files)
      [] OTHER -> load_registry(files)

\* what becomes of the caller when the load raises: dispatch_ready_subtasks
\* and task_status let the exception through, the spawner's handler leaves
\* the queue file it was processing, the supervisor's handler ends the tick
OperationOf(role, result) ==
    IF result.returns THEN "runs"
    ELSE CASE role = "spawner" -> "file_skipped"
           [] role = "supervisor" -> "tick_skipped"
           [] OTHER -> "raises"

InitReaders ==
    /\ disk \in {NoDisk} \cup {[file \in {"registry"} |-> text] : text \in RegistryTexts}
    /\ tasksDir = <<>>
    /\ registry = <<>>
    /\ queueDir = <<>>
    /\ payload = [planId |-> "P1", subtasks |-> <<>>]
    /\ plan = NoPlan
    /\ ordered = Unsorted
    /\ dispatchState = <<>>
    /\ sidecars = <<>>
    /\ call = NoCall
    /\ pr = NoPR
    /\ analysis = NoAnalysis
    /\ clean = NoVerdict
    /\ backend = "tmux"
    /\ AtRest({})

LoadRegistry(role) ==
    /\ \E result \in {LoadedBy(role, disk)} :
          reader' = [done |-> TRUE, role |-> role, file |-> "registry",
                     exists |-> "registry" \in DOMAIN disk,
                     text |-> IF "registry" \in DOMAIN disk
                              THEN disk["registry"] ELSE <<>>,
                     writing |-> writer, result |-> result,
                     operation |-> OperationOf(role, result)]
    /\ disk' = IF role = "spawner" /\ "registry" \notin DOMAIN disk
               THEN [file \in {"registry"} |-> json_dumps(<<>>)]
               ELSE disk
    /\ UNCHANGED writer

NextReaders ==
    \/ \E role \in WriterRoles["registry"], value \in Documents :
          /\ "registry" \in DOMAIN disk
          /\ WriteTextOpen(role, "registry", value)
          /\ FilesUnchanged
    \/ WriteTextFlush /\ FilesUnchanged
    \/ WriteTextClose /\ FilesUnchanged
    \/ \E role \in RegistryReaders : LoadRegistry(role) /\ FilesUnchanged

SpecReaders == InitReaders /\ [][NextReaders]_vars

(***************************************************************************)
(* SpecProfile: ZoePlannerEngine.plan on every bounded planner request.    *)
(* A request is what _build_task_profile reads of it: the words of title   *)
(* and objective that occur in a term list, the length of the objective,   *)
(* the hinted files by kind, whether the caller gave them, and whether     *)
(* there are constraints.                                                  *)
(***************************************************************************)
\* the term lists of planner_engine.py (their ASCII entries)
CODE_CHANGE_TERMS ==
    {"implement", "fix", "build", "create", "add", "update", "refactor",
     "migrate", "wire", "integrate", "repair", "ship", "support"}
FOUNDATION_SPLIT_TERMS ==
    {"refactor", "migrate", "extract", "restructure", "integrate", "wire",
     "multi-step"}
DOC_ACTION_TERMS ==
    {"document", "documenter", "write docs", "update docs",
     "update documentation", "add docs", "refresh readme", "readme",
     "changelog", "guide", "manual"}
ANALYSIS_TERMS ==
    {"investigate", "analyze", "audit", "review", "triage", "inspect",
     "understand", "progress", "status", "read", "current state", "confirm",
     "survey", "assess", "inventory"}
CONJUNCTION_TOKENS == {" and ", " then ", " also ", " plus "}

\* the words a title or an objective is made of here
PlannerWords == {"refactor", "extract", "fix", "guide", "readme", "audit", " and "}

\* the terms that are substrings of a word: "readme" holds "read"
TermsIn(word) == IF word = "readme" THEN {"readme", "read"} ELSE {word}

\* _contains_any(text, terms): any(term in lowered for term in terms)
contains_any(text, terms) == \E word \in text : TermsIn(word) \cap terms # {}

\* the thresholds of _build_task_profile
LongObjective == 140
ManyFiles == 3
SplitScore == 3

PlannerFiles == [impl : {0, 1, ManyFiles}, tests : {0, 1}, docs : {0, 1}]

PlannerRequests ==
    {[tool |-> "plan", text |-> text, objective_length |-> n, files |-> files,
      has_explicit_files_hint |-> explicit, constraints |-> constraints] :
        text \in SUBSET PlannerWords,
        n \in {LongObjective - 1, LongObjective},
        files \in PlannerFiles,
        explicit \in BOOLEAN,
        constraints \in BOOLEAN}

\* len(files_hint), files_hint being what _partition_files splits
files_hint_len(files) == files.impl + files.tests + files.docs

\* complexity_score of _build_task_profile
complexity_score(req) ==
    (IF req.objective_length >= LongObjective THEN 1 ELSE 0)
    + (IF files_hint_len(req.files) >= ManyFiles THEN 1 ELSE 0)
    + (IF req.constraints THEN 1 ELSE 0)
    + (IF contains_any(req.text, FOUNDATION_SPLIT_TERMS) THEN 1 ELSE 0)
    + (IF contains_any(req.text, CONJUNCTION_TOKENS) THEN 1 ELSE 0)

\* _build_task_profile
build_task_profile(req) ==
    LET docs_requested ==
            \/ contains_any(req.text, DOC_ACTION_TERMS)
            \/ req.has_explicit_files_hint /\ req.files.docs > 0
        code_requested ==
            \/ contains_any(req.text, CODE_CHANGE_TERMS)
            \/ req.has_explicit_files_hint /\ req.files.impl > 0
        analysis_requested == contains_any(req.text, ANALYSIS_TERMS)
        docs_only ==
            /\ docs_requested /\ ~analysis_requested /\ ~code_requested
            /\ req.files.tests = 0
        analysis_only == analysis_requested /\ ~code_requested /\ ~docs_requested
    IN [docs_requested |-> docs_requested,
        tests_requested |-> ~docs_only /\ ~analysis_only,
        docs_only |-> docs_only,
        analysis_only |-> analysis_only,
        requires_foundation_split |->
            /\ ~docs_only
            /\ ~analysis_only
            /\ \/ complexity_score(req) >= SplitScore
               \/ contains_any(req.text, FOUNDATION_SPLIT_TERMS)]

\* _subtask_payload, of which the id, the title and dependsOn are kept;
\* subtask_id = f"S{len(subtasks) + 1}"
subtask_payload(subtasks, title, dependency_chain) ==
    [id |-> SubtaskNames[Len(subtasks) + 1], title |-> title,
     depends_on |-> dependency_chain]

FoundationTitle == "Prepare the implementation surface"
ImplementationTitle == "Land the primary implementation"
ValidationTitle == "Add validation and regression coverage"
DocumentationTitle == "Update documentation and handoff notes"
AnalysisTitle == "Analyze the current state"
DocsOnlyTitle == "Update documentation"

\* subtasks.append(...); dependency_chain = [the id appended]
AppendPhase(subtasks, wanted, title) ==
    IF wanted
    THEN Append(subtasks,
                subtask_payload(subtasks, title,
                                IF subtasks = <<>> THEN <<>>
                                ELSE <<subtasks[Len(subtasks)].id>>))
    ELSE subtasks

\* _plan_code_change_tasks
plan_code_change_tasks(profile) ==
    AppendPhase(
        AppendPhase(
            AppendPhase(
                AppendPhase(<<>>, profile.requires_foundation_split, FoundationTitle),
                TRUE, ImplementationTitle),
            profile.tests_requested, ValidationTitle),
        profile.docs_requested, DocumentationTitle)

\* the subtasks ZoePlannerEngine.plan makes of a profile
planned_subtasks(profile) ==
    IF profile.analysis_only
    THEN <<subtask_payload(<<>>, AnalysisTitle, <<>>)>>
    ELSE IF profile.docs_only
    THEN <<subtask_payload(<<>>, DocsOnlyTitle, <<>>)>>
    ELSE plan_code_change_tasks(profile)

InitProfile ==
    /\ request \in PlannerRequests
    /\ request.has_explicit_files_hint => files_hint_len(request.files) > 0
    /\ payload = [planId |-> "P1", subtasks |-> <<>>]
    /\ plan = NoPlan
    /\ ordered = Unsorted
    /\ tasksDir = <<>>
    /\ response = NoResponse
    /\ registry = <<>>
    /\ queueDir = <<>>
    /\ dispatchState = <<>>
    /\ sidecars = <<>>
    /\ call = NoCall
    /\ pr = NoPR
    /\ analysis = NoAnalysis
    /\ clean = NoVerdict
    /\ disk = NoDisk
    /\ backend = "tmux"
    /\ watching = NoWatch
    /\ writer = NoWriter
    /\ reader = NoReader
    /\ spawner = IdleSpawner
    /\ monitor = IdleMonitor
    /\ notified_ready = {}
    /\ runtime = <<>>
    /\ worktrees = <<>>
    /\ runs = <<>>
    /\ launches = <<>>
    /\ respawns = <<>>
    /\ notified = [k \in NotificationKinds |-> <<>>]
    /\ crashes = 0

\* ZoePlannerEngine.plan: the payload it hands to Plan.from_dict
PlannerPlans ==
    /\ payload.subtasks = <<>>
    /\ \E subtasks \in {planned_subtasks(build_task_profile(request))} :
          payload' = [payload EXCEPT !.subtasks = subtasks]
    /\ UNCHANGED <<agentVars, watchVars, ioVars, toolVars, plan, ordered, fileVars,
                   call, checkVars, systemVars>>

NextProfile == PlannerPlans

SpecProfile == InitProfile /\ [][NextProfile]_vars

(***************************************************************************)
(* SpecRestart: the spawner on the queue files of two dispatched tasks,    *)
(* the first of them tracked, next to a supervisor whose restarts of an    *)
(* agent may fail.                                                         *)
(***************************************************************************)
RestartObservations ==
    {Observation(NoPR, "none", TRUE), Observation(FailedPR, "none", TRUE),
     Observation(FailedPR, "none", FALSE)}

InitRestart ==
    /\ InitSpawn
    /\ registry # <<>>
    /\ \A name \in DOMAIN queueDir :
          \E strategy \in WorktreeStrategies :
              queueDir[name] = DispatchedTask(name, strategy)

NextRestart ==
    \/ SpawnerPoll
    \/ SpawnerRead
    \/ SpawnerSpawn
    \/ SpawnerSave
    \/ SpawnerUnlink
    \/ MonitorLoad
    \/ MonitorLoop(RestartObservations)
    \/ MonitorSave

SpecRestart == InitRestart /\ [][NextRestart]_vars

(***************************************************************************)
(* SpecReady: the supervisor alone on two entries whose PRs come up, stay  *)
(* pending and pass; writing the registry file may fail.                   *)
(***************************************************************************)
ReadyObservations ==
    {Observation(q, "none", TRUE) : q \in {NoPR, PendingPR, CleanPR}}

InitReady ==
    /\ registry \in
          {<<TickEntry(TickIds[1], first, 0, "tmux", "codex"),
             TickEntry(TickIds[2], second, 0, "tmux", "codex")>> :
              first \in {"running", "pr_created"},
              second \in {"running", "pr_created"}}
    /\ runtime = [id \in Range(TickIds) |-> "alive"]
    /\ worktrees = [dir \in {"feat-" \o id : id \in Range(TickIds)} |->
                       [name \in {"prompt.txt"} |-> "base prompt"]]
    /\ runs = [id \in Range(TickIds) |->
                 [runner |-> RUNNER_CODEX, prompt |-> "prompt.txt", mode |-> "tmux"]]
    /\ backend = "tmux"
    /\ pr = NoPR
    /\ payload = [planId |-> "P1", subtasks |-> <<>>]
    /\ plan = NoPlan
    /\ ordered = Unsorted
    /\ dispatchState = <<>>
    /\ sidecars = <<>>
    /\ queueDir = <<>>
    /\ tasksDir = <<>>
    /\ call = NoCall
    /\ analysis = NoAnalysis
    /\ clean = NoVerdict
    /\ disk = NoDisk
    /\ watching = NoWatch
    /\ writer = NoWriter
    /\ reader = NoReader
    /\ request = NoRequest
    /\ response = NoResponse
    /\ spawner = IdleSpawner
    /\ monitor = IdleMonitor
    /\ notified_ready = {}
    /\ launches = [id \in Range(TickIds) |-> 1]
    /\ respawns = [id \in Range(TickIds) |-> 0]
    /\ notified = [k \in NotificationKinds |-> [id \in Range(TickIds) |-> 0]]
    /\ crashes = 0

\* if changed: save_registry(items) raises (the disk is full, the file is
\* not writable): the except of the while loop prints, the file is as it
\* was, and the tick ends with the sleep
MonitorSaveFails ==
    /\ monitor.pc = "save"
    /\ monitor.changed
    /\ monitor' = IdleMonitor
    /\ UNCHANGED <<agentVars, watchVars, ioVars, toolVars, planVars, fileVars, call,
                   checkVars, spawner, notified_ready, worldVars, histVars>>

NextReady ==
    \/ MonitorLoad
    \/ MonitorLoop(ReadyObservations)
    \/ MonitorSave
    \/ MonitorSaveFails

SpecReady == InitReady /\ [][NextReady]_vars

(***************************************************************************)
(* SpecIds: the ids of a plan of two subtasks, the second independent of   *)
(* the first or waiting for it, on their way from the plan to the queue    *)
(* and the registry.  An id is the sequence of its characters; the subtask *)
(* ids are all identifiers of up to MaxIdLen characters of IdChars, in     *)
(* either order.                                                           *)
(***************************************************************************)
MaxIdLen == 2

IdChars == {"a", "-", "_"}
PlanIdChars == <<"P", "1">>

\* the characters IDENTIFIER_RE lets through, as far as they occur here
IdentifierChars == IdChars \cup Range(PlanIdChars)

\* IDENTIFIER_RE.match(value): ^[A-Za-z0-9_-]+$
identifier_match(value) ==
    value # <<>> /\ \A i \in 1..Len(value) : value[i] \in IdentifierChars

\* re.sub(r"[^A-Za-z0-9_-]+", "-", value): every run of other characters
\* becomes one "-"
RECURSIVE replace_other(_)
replace_other(value) ==
    IF value = <<>> THEN <<>>
    ELSE IF Head(value) \in IdentifierChars
    THEN <<Head(value)>> \o replace_other(Tail(value))
    ELSE IF Len(value) > 1 /\ value[2] \notin IdentifierChars
    THEN replace_other(Tail(value))
    ELSE <<"-">> \o replace_other(Tail(value))

\* re.sub(r"-{2,}", "-", value)
RECURSIVE collapse_dashes(_)
collapse_dashes(value) ==
    IF Len(value) < 2 THEN value
    ELSE IF value[1] = "-" /\ value[2] = "-" THEN collapse_dashes(Tail(value))
    ELSE <<Head(value)>> \o collapse_dashes(Tail(value))

\* value.strip("-_")
RECURSIVE strip_separators(_)
strip_separators(value) ==
    IF value = <<>> THEN value
    ELSE IF Head(value) \in {"-", "_"} THEN strip_separators(Tail(value))
    ELSE IF value[Len(value)] \in {"-", "_"}
    THEN strip_separators(SubSeq(value, 1, Len(value) - 1))
    ELSE value

\* sanitize_identifier(value) on the characters of value
sanitize_identifier_chars(value) ==
    LET sanitized == strip_separators(collapse_dashes(replace_other(value)))
    IN IF sanitized = <<>> THEN <<"t", "a", "s", "k">> ELSE sanitized

\* execution_task_id(plan, subtask)
execution_task_id_chars(plan_id, subtask_id) ==
    sanitize_identifier_chars(plan_id \o <<"-">> \o subtask_id)

IdSeqs == UNION {[1..n -> IdChars] : n \in 1..MaxIdLen}

\* Plan.from_dict accepts the two ids: identifiers, no duplicate
InitIds ==
    /\ \E a \in IdSeqs, b \in IdSeqs, waits \in BOOLEAN :
          /\ a # b
          /\ identifier_match(a) /\ identifier_match(b)
          /\ payload = [planId |-> PlanIdChars,
                        subtasks |-> <<[id |-> a, depends_on |-> <<>>],
                                       [id |-> b,
                                        depends_on |-> IF waits THEN <<a>> ELSE <<>>]>>]
    /\ plan = NoPlan
    /\ ordered = Unsorted
    /\ tasksDir = <<>>
    /\ request = NoRequest
    /\ response = NoResponse
    /\ registry = <<>>
    /\ queueDir = <<>>
    /\ dispatchState = <<>>
    /\ sidecars = <<>>
    /\ call = NoCall
    /\ pr = NoPR
    /\ analysis = NoAnalysis
    /\ clean = NoVerdict
    /\ disk = NoDisk
    /\ backend = "tmux"
    /\ watching = NoWatch
    /\ writer = NoWriter
    /\ reader = NoReader
    /\ spawner = IdleSpawner
    /\ monitor = IdleMonitor
    /\ notified_ready = {}
    /\ runtime = <<>>
    /\ worktrees = <<>>
    /\ runs = <<>>
    /\ launches = <<>>
    /\ respawns = <<>>
    /\ notified = [k \in NotificationKinds |-> <<>>]
    /\ crashes = 0

\* the queue file of a subtask: queue_root / f"{task_payload['id']}.json"
IdTask(plan_id, subtask) ==
    [id |-> execution_task_id_chars(plan_id, subtask.id),
     repo |-> PlanRepo,
     metadata |-> [is_dict |-> TRUE, planId |-> plan_id, subtaskId |-> subtask.id]]

\* ready_subtask_ids(plan, registry_items)
ids_ready(plan_id, registry_items) ==
    {registry_items[i].metadata.subtaskId :
        i \in {k \in 1..Len(registry_items) :
                 /\ registry_items[k].metadata.planId = plan_id
                 /\ registry_items[k].status = "ready"}}

\* the body of the for loop of dispatch_ready_subtasks for one subtask;
\* queue_path.write_text replaces a file that exists
DispatchId(plan_id, subtask, completed, acc) ==
    IF is_queued(acc.dispatched, subtask.id) \/ ~deps_completed(subtask, completed)
    THEN acc
    ELSE [dispatched |-> Put(acc.dispatched, subtask.id,
                             Queued(IdTask(plan_id, subtask).id)),
          queue |-> Put(acc.queue, IdTask(plan_id, subtask).id,
                        IdTask(plan_id, subtask)),
          queued_paths |-> Append(acc.queued_paths, IdTask(plan_id, subtask).id)]

\* dispatch_ready_subtasks on the plan, the first subtask before the second
\* as the topological order has them
DispatchIds ==
    /\ call.n < MaxCalls
    /\ \E r \in {DispatchId(payload.planId, payload.subtasks[2],
                            ids_ready(payload.planId, registry),
                            DispatchId(payload.planId, payload.subtasks[1],
                                       ids_ready(payload.planId, registry),
                                       [dispatched |-> dispatchState,
                                        queue |-> queueDir,
                                        queued_paths |-> <<>>]))} :
          /\ dispatchState' = r.dispatched
          /\ queueDir' = r.queue
          /\ call' = [NoCall EXCEPT !.n = call.n + 1,
                                    !.dispatched_before = dispatchState,
                                    !.queue_before = queueDir,
                                    !.queued_paths = r.queued_paths]
    /\ UNCHANGED <<agentVars, watchVars, ioVars, toolVars, planVars, sidecars,
                   registry, checkVars, systemVars>>

\* the spawner on one queue file: the file of a tracked id is dropped, any
\* other is spawned, entered into the registry and removed
SpawnerTakes(p) ==
    /\ p \in DOMAIN queueDir
    /\ registry' =
          IF \E i \in 1..Len(registry) : registry[i].id = queueDir[p].id
          THEN registry
          ELSE Append(registry, [id |-> queueDir[p].id, status |-> "running",
                                 metadata |-> queueDir[p].metadata])
    /\ queueDir' = Drop(queueDir, p)
    /\ UNCHANGED <<agentVars, watchVars, ioVars, toolVars, planVars, dispatchState,
                   sidecars, call, checkVars, systemVars>>

NextIds ==
    \/ DispatchIds
    \/ \E p \in DOMAIN queueDir : SpawnerTakes(p)
    \/ \E i \in 1..Len(registry) : TaskReady(i)

SpecIds == InitIds /\ [][NextIds]_vars

(***************************************************************************)
(* The claims about the dispatcher as a function.                           *)
(***************************************************************************)
\* the completed set as the specification defines it: the subtask ids of the
\* registry entries in status ready whose metadata.planId is the plan's
ClaimCompleted(items, plan_id) ==
    {items[i].metadata.subtaskId :
        i \in {k \in 1..Len(items) :
                 /\ items[k].status = "ready"
                 /\ items[k].metadata.is_dict
                 /\ items[k].metadata.planId = plan_id}}

\* the subtasks the specification says one call queues
ClaimEligible(p, dispatched, items) ==
    {s \in Range(p.subtasks) :
        /\ Range(s.depends_on) \subseteq ClaimCompleted(items, p.plan_id)
        /\ ~(s.id \in DOMAIN dispatched /\ dispatched[s.id].state = "queued")}

\* C1: one call of dispatch_ready_subtasks writes a queue file for exactly
\* the subtasks whose dependencies are all in the completed set and whose
\* dispatched state is not "queued": none of them is skipped, and no other
\* queue file is written.
C1_DispatchQueuesExactlyReady ==
    (call.n > 0) =>
        LET eligible == ClaimEligible(plan, call.dispatched_before, call.registry_items)
            files == {execution_task_id(plan, s) : s \in eligible}
        IN /\ Range(call.queued_paths) = files
           /\ Len(call.queued_paths) = Cardinality(eligible)
           /\ \A s \in eligible :
                 /\ execution_task_id(plan, s) \in DOMAIN queueDir
                 /\ queueDir[execution_task_id(plan, s)].metadata.subtaskId = s.id
           /\ DOMAIN queueDir = DOMAIN call.queue_before \cup files
           /\ \A f \in DOMAIN call.queue_before \ files :
                 queueDir[f] = call.queue_before[f]

\* a call that queued two subtasks, held one back and found one queued
C1_Witness ==
    /\ call.n > 0
    /\ Len(call.queued_paths) >= 1
    /\ \E s \in Range(plan.subtasks) : s.id \notin DOMAIN dispatchState
    /\ DOMAIN call.dispatched_before # {}
    /\ Len(call.registry_items) > Len(ForeignItems)

\* C3: a call that finds no completion the call before did not find returns
\* the empty list and leaves the queue as it is.
C3_DispatchIdempotent ==
    (/\ call.n >= 2
     /\ ClaimCompleted(call.registry_items, plan.plan_id)
            \subseteq ClaimCompleted(call.previous_items, plan.plan_id))
        => /\ call.queued_paths = <<>>
           /\ queueDir = call.queue_before

\* a second call with the completions of the first, which had queued
C3_Witness ==
    /\ call.n >= 2
    /\ call.queue_before # <<>>
    /\ ClaimCompleted(call.registry_items, plan.plan_id)
           = ClaimCompleted(call.previous_items, plan.plan_id)
    /\ ClaimCompleted(call.registry_items, plan.plan_id) # {}
    /\ \E s \in Range(plan.subtasks) : s.id \notin DOMAIN dispatchState

(***************************************************************************)
(* The claim about analyze_checks.                                          *)
(***************************************************************************)
\* a check that is still running: not COMPLETED and without a conclusion
ClaimPending(c) == Upper(c.status) # "COMPLETED" /\ Upper(c.conclusion) = ""
ClaimFailed(c) == ~ClaimPending(c) /\ Upper(c.conclusion) \in FailureConclusions

RECURSIVE ClaimSummary(_)
\* "<name>:<conclusion>" of the failed checks, in rollup order, joined
ClaimSummary(rollup) ==
    IF rollup = <<>> THEN <<>>
    ELSE IF ClaimFailed(Head(rollup))
    THEN <<check_name(Head(rollup)) \o ":" \o Upper(Head(rollup).conclusion)>>
             \o ClaimSummary(Tail(rollup))
    ELSE ClaimSummary(Tail(rollup))

\* C9: analyze_checks returns (false, none, true) for the empty rollup and
\* whenever some check is pending, failed checks or not; (false, the summary
\* of the failed checks, false) when no check is pending and some check has
\* failed; (true, none, false) otherwise.
C9_PendingBeforeFailures ==
    (analysis # NoAnalysis) =>
        LET rollup == pr.statusCheckRollup
            anyPending == \E i \in 1..Len(rollup) : ClaimPending(rollup[i])
            anyFailed == \E i \in 1..Len(rollup) : ClaimFailed(rollup[i])
        IN analysis =
             IF rollup = <<>> \/ anyPending THEN Analysis(FALSE, None, TRUE)
             ELSE IF anyFailed
                  THEN Analysis(FALSE, Join("; ", ClaimSummary(rollup)), FALSE)
                  ELSE Analysis(TRUE, None, FALSE)

\* C9 as the specification has it: a failed check decides, also when other
\* checks are still pending.
C9_FailuresBeforePending ==
    (analysis # NoAnalysis) =>
        LET rollup == pr.statusCheckRollup
            anyPending == \E i \in 1..Len(rollup) : ClaimPending(rollup[i])
            anyFailed == \E i \in 1..Len(rollup) : ClaimFailed(rollup[i])
        IN analysis =
             IF rollup = <<>> THEN Analysis(FALSE, None, TRUE)
             ELSE IF anyFailed
                  THEN Analysis(FALSE, Join("; ", ClaimSummary(rollup)), FALSE)
                  ELSE IF anyPending THEN Analysis(FALSE, None, TRUE)
                  ELSE Analysis(TRUE, None, FALSE)

\* the mixed case analysed: one check failed, another still pending
C9_Witness ==
    /\ analysis # NoAnalysis
    /\ \E i, j \in 1..Len(pr.statusCheckRollup) :
          /\ ClaimFailed(pr.statusCheckRollup[i])
          /\ ClaimPending(pr.statusCheckRollup[j])
    /\ analysis.pending

(***************************************************************************)
(* The claims about the running system.                                     *)
(***************************************************************************)
\* the subtasks whose queue file this step writes
NewlyQueued ==
    {t \in Range(plan.subtasks) :
        /\ ~(t.id \in DOMAIN dispatchState /\ dispatchState[t.id].state = "queued")
        /\ t.id \in DOMAIN dispatchState' /\ dispatchState'[t.id].state = "queued"}

\* C2: when the queue file of a subtask is written, every subtask of its
\* dependsOn has an entry in the registry file whose status is ready and
\* which the supervisor has promoted.
C2_QueuedOnlyAfterDepsReady ==
    [][\A t \in NewlyQueued :
          /\ execution_task_id(plan, t) \in DOMAIN queueDir'
          /\ \A d \in Range(t.depends_on) :
                \E i \in 1..Len(registry) :
                    /\ registry[i].metadata.planId = plan.plan_id
                    /\ registry[i].metadata.subtaskId = d
                    /\ registry[i].status = "ready"
                    /\ registry[i].id \in notified_ready
                    /\ notified["ready"][registry[i].id] >= 1]_vars

\* S2 of the chain is queued, after S1 was promoted, and S3 still waits
C2_Witness ==
    /\ Len(plan.subtasks) = 3
    /\ "S2" \in DOMAIN dispatchState
    /\ dispatchState["S2"].state = "queued"
    /\ "P1-S2" \in DOMAIN queueDir
    /\ "P1-S1" \in notified_ready
    /\ "S3" \notin DOMAIN dispatchState

\* C4: the spawner starts the agent runner at most once for each execution
\* task id, whatever the backend and wherever the spawner crashes.
C4_LaunchedAtMostOnce == \A id \in DOMAIN launches : launches[id] <= 1

\* C5: no step removes an entry from the registry file.
C5_NoEntryRemoved ==
    [][\A i \in 1..Len(registry) :
          \E j \in 1..Len(registry') : registry'[j].id = registry[i].id]_vars

\* C6: a registry write of the spawner appends one entry and leaves every
\* entry the file held as it was.
C6_SpawnerOnlyAppends ==
    [][(spawner.pc = "save" /\ spawner'.pc = "unlink") =>
          /\ Len(registry') = Len(registry) + 1
          /\ \A i \in 1..Len(registry) : registry'[i] = registry[i]]_vars

\* an OPEN PR, every check SUCCESS, mergeable MERGEABLE, merge state CLEAN
ClaimCleanPass(q) ==
    /\ q.exists
    /\ q.state = "OPEN"
    /\ q.statusCheckRollup # <<>>
    /\ \A k \in 1..Len(q.statusCheckRollup) :
          q.statusCheckRollup[k].conclusion = "SUCCESS"
    /\ q.mergeable = "MERGEABLE"
    /\ q.mergeStateStatus = "CLEAN"

\* C7: an entry for which the supervisor has seen a clean passing PR leaves
\* the loop in status ready with completedAt set, and the ready notification
\* of a task id is sent once and no more.
C7_CleanPassBecomesReady ==
    /\ (monitor.pc = "save") =>
          \A i \in 1..Len(monitor.items) :
              (monitor.seen[i].looked /\ ClaimCleanPass(monitor.seen[i].pr)) =>
                  /\ monitor.items[i].status = "ready"
                  /\ monitor.items[i].completedAt # None
                  /\ notified["ready"][monitor.items[i].id] = 1
    /\ \A id \in DOMAIN runtime : notified["ready"][id] <= 1

\* C8: attempts never exceeds maxAttempts, the supervisor restarts the agent
\* of an entry at most maxAttempts times, and the blocked notification of an
\* entry is sent at most once.
C8_RetriesBounded ==
    /\ \A i \in 1..Len(registry) : registry[i].attempts <= registry[i].maxAttempts
    /\ \A i \in 1..Len(monitor.items) :
          monitor.items[i].attempts <= monitor.items[i].maxAttempts
    /\ \A id \in DOMAIN respawns :
          /\ respawns[id] <= DefaultMaxAttempts
          /\ notified["blocked"][id] <= 1

\* C10: for every accepted plan the topological order holds each subtask
\* exactly once and every subtask comes after all subtasks of its dependsOn.
C10_TopoOrderRespectsDeps ==
    (ordered # Unsorted) =>
        /\ ordered.ok
        /\ Len(ordered.value) = Len(plan.subtasks)
        /\ \A i \in 1..Len(plan.subtasks) : Count(ordered.value, plan.subtasks[i]) = 1
        /\ \A i \in 1..Len(ordered.value) :
              \A d \in Range(ordered.value[i].depends_on) :
                  \E j \in 1..(i - 1) : ordered.value[j].id = d

\* a plan whose order differs from its input order has been sorted
C10_Witness ==
    /\ ordered # Unsorted
    /\ ordered.ok
    /\ Len(ordered.value) = 3
    /\ ordered.value # plan.subtasks
    /\ \E i \in 1..3 : Len(ordered.value[i].depends_on) = 2

(***************************************************************************)
(* The claim about the stability of the topological order.                  *)
(***************************************************************************)
\* the indexes of the subtasks not yet emitted whose dependsOn ids have all
\* been emitted
ClaimAvailable(p, emitted) ==
    {i \in 1..Len(p.subtasks) :
        /\ p.subtasks[i].id \notin emitted
        /\ Range(p.subtasks[i].depends_on) \subseteq emitted}

ClaimMin(S) == CHOOSE i \in S : \A j \in S : i <= j

\* the orders of the indexes 1..n that put every subtask after its
\* dependencies
ClaimTopoOrders(p) ==
    {f \in [1..Len(p.subtasks) -> 1..Len(p.subtasks)] :
        /\ \A i, j \in 1..Len(p.subtasks) : i # j => f[i] # f[j]
        /\ \A k \in 1..Len(p.subtasks) :
              Range(p.subtasks[f[k]].depends_on)
                  \subseteq {p.subtasks[f[j]].id : j \in 1..(k - 1)}}

ClaimLexLeq(a, b) ==
    \/ a = b
    \/ \E k \in 1..Len(a) : a[k] < b[k] /\ \A j \in 1..(k - 1) : a[j] = b[j]

\* the place of a queue file's subtask in the topological order
ClaimPlace(task_id) ==
    CHOOSE k \in 1..Len(ordered.value) :
        execution_task_id(plan, ordered.value[k]) = task_id

\* C11: every element of the topological order is the subtask of smallest
\* original index among those whose dependencies were emitted before it; the
\* order is the lexicographically smallest (by original index) topological
\* order of the plan; and the paths one dispatch call returns follow it.
C11_OrderStableByIndex ==
    (call.n > 0) =>
        /\ ordered.ok
        /\ Len(ordered.value) = Len(plan.subtasks)
        /\ \A k \in 1..Len(ordered.value) :
              LET emitted == {ordered.value[j].id : j \in 1..(k - 1)}
              IN /\ ClaimAvailable(plan, emitted) # {}
                 /\ ordered.value[k]
                        = plan.subtasks[ClaimMin(ClaimAvailable(plan, emitted))]
        /\ LET idx == [k \in 1..Len(ordered.value) |->
                          IndexOf(subtask_ids(plan.subtasks), ordered.value[k].id)]
           IN /\ idx \in ClaimTopoOrders(plan)
              /\ \A f \in ClaimTopoOrders(plan) : ClaimLexLeq(idx, f)
        /\ \A i, j \in 1..Len(call.queued_paths) :
              i < j => ClaimPlace(call.queued_paths[i]) < ClaimPlace(call.queued_paths[j])

\* S1 depends on S2: S2 is emitted first and releases S1, which goes before
\* S3 although S3 was ready earlier; one call queued all three in this order
C11_Witness ==
    /\ call.n > 0
    /\ call.queued_paths = <<"P1-S2", "P1-S1", "P1-S3">>
    /\ ordered.ok
    /\ ordered.value # plan.subtasks

(***************************************************************************)
(* The claim about the validation of the dependency graph.                  *)
(***************************************************************************)
\* the pairs <<subtask id, id it depends on>> of a payload
ClaimDeps(subtasks) ==
    UNION {{<<subtasks[i].id, d>> : d \in Range(subtasks[i].depends_on)} :
              i \in 1..Len(subtasks)}

RECURSIVE ClaimClosure(_, _)
\* the pairs joined by a path of up to n + 1 edges of R
ClaimClosure(R, n) ==
    IF n = 0 THEN R
    ELSE LET C == ClaimClosure(R, n - 1)
         IN C \cup {<<x[1][1], x[2][2]>> :
                       x \in {y \in C \X R : y[1][2] = y[2][1]}}

ClaimUniqueIds(subtasks) ==
    \A i, j \in 1..Len(subtasks) : i # j => subtasks[i].id # subtasks[j].id

ClaimKnownDeps(subtasks) ==
    \A e \in ClaimDeps(subtasks) : e[2] \in Range(subtask_ids(subtasks))

ClaimAcyclic(subtasks) ==
    \A e \in ClaimClosure(ClaimDeps(subtasks), Len(subtasks)) : e[1] # e[2]

\* C12: Plan.from_dict raises InvalidPlan when two subtasks share an id, when
\* a dependsOn names an id that is no subtask of the plan, and when the
\* dependency relation has a cycle (a subtask depending on itself included);
\* it accepts every other non-empty payload; so every Plan has unique
\* subtask ids and an acyclic dependency relation.
C12_RejectsExactlyBadGraphs ==
    (plan # NoPlan) =>
        /\ plan.ok <=> /\ payload.subtasks # <<>>
                       /\ ClaimUniqueIds(payload.subtasks)
                       /\ ClaimKnownDeps(payload.subtasks)
                       /\ ClaimAcyclic(payload.subtasks)
        /\ ~plan.ok => plan.error = "InvalidPlan"
        /\ plan.ok => /\ plan.subtasks = payload.subtasks
                      /\ ClaimUniqueIds(plan.subtasks)
                      /\ ClaimAcyclic(plan.subtasks)

\* a payload of three subtasks with unique ids and known dependencies, none
\* depending on itself, one without dependency, rejected for a cycle
C12_Witness ==
    /\ plan # NoPlan
    /\ ~plan.ok
    /\ Len(payload.subtasks) = 3
    /\ ClaimUniqueIds(payload.subtasks)
    /\ ClaimKnownDeps(payload.subtasks)
    /\ \A e \in ClaimDeps(payload.subtasks) : e[1] # e[2]
    /\ \E i \in 1..3 : payload.subtasks[i].depends_on = <<>>
    /\ ~ClaimAcyclic(payload.subtasks)

(***************************************************************************)
(* The claim about the provenance metadata of the queue files.              *)
(***************************************************************************)
\* C14: every queue file the dispatcher has written carries
\* metadata.plannedBy = "zoe" and the planId and subtaskId of the subtask
\* it was built from.
C14_QueueFilesPlannedByZoe ==
    \A s \in Range(plan.subtasks) :
        execution_task_id(plan, s) \in DOMAIN queueDir =>
            LET file == queueDir[execution_task_id(plan, s)]
            IN /\ file.metadata.plannedBy = "zoe"
               /\ file.metadata.planId = plan.plan_id
               /\ file.metadata.subtaskId = s.id

(***************************************************************************)
(* The claim about merge_clean.                                             *)
(***************************************************************************)
\* the values of mergeable the specification lists: the bool true and the
\* strings "true", "mergeable", "MERGEABLE"
ClaimMergeableListed == {PyTrue, "true", "mergeable", "MERGEABLE"}

\* C19 as the specification has it: merge_clean is true exactly when
\* mergeable is one of the four listed values and the upper-cased
\* mergeStateStatus is CLEAN.
C19_MergeCleanListedValues ==
    clean.done =>
        (clean.value <=>
            /\ pr.mergeable \in ClaimMergeableListed
            /\ pr.mergeStateStatus # None
            /\ Upper(pr.mergeStateStatus) = "CLEAN")

\* C19: merge_clean is true exactly when str(mergeable), lower-cased, is
\* "true" or "mergeable" (the bool true and every spelling of the two words)
\* and the upper-cased mergeStateStatus is CLEAN; a missing or null field
\* makes it false.
C19_MergeCleanAnyCase ==
    clean.done =>
        (clean.value <=>
            /\ pr.mergeable \in ClaimMergeableListed \cup {"True", "TRUE", "Mergeable"}
            /\ pr.mergeStateStatus \in {"CLEAN", "clean", "Clean"})

\* merge_clean has answered true for a spelling the specification does not
\* list
C19_Witness ==
    /\ clean.done
    /\ clean.value
    /\ pr.mergeable = "Mergeable"
    /\ pr.mergeStateStatus = "clean"

(***************************************************************************)
(* The claims about the tool layer.                                         *)
(***************************************************************************)
\* this step is a call of invoke for one of the given tools
ClaimInvoked(tools) ==
    /\ response'.n = response.n + 1
    /\ request'.tool \in tools

\* C13: a plan_task or plan_and_dispatch_task call that fails with
\* PolicyViolation or InvalidPlan leaves every file under tasks/ and under
\* orchestrator/queue/ as it was.
C13_FailedPlanningWritesNothing ==
    [][(/\ ClaimInvoked({"plan_task", "plan_and_dispatch_task"})
        /\ response'.kind = "response"
        /\ response'.type \in {"PolicyViolation", "InvalidPlan"})
          => /\ tasksDir' = tasksDir
             /\ queueDir' = queueDir]_vars

\* after a call that archived and queued, a second call was refused for its
\* objective
C13_Witness ==
    /\ response.n = 2
    /\ request.tool = "plan_and_dispatch_task"
    /\ response.type = "PolicyViolation"
    /\ response.code = "POLICY_VIOLATION"
    /\ "P1" \in DOMAIN tasksDir
    /\ queueDir # <<>>

\* C15: every request handed to invoke is answered by one response, a
\* success or a failure with code PLANNER_ERROR or POLICY_VIOLATION.
C15_EveryRequestAnswered ==
    (response.n > 0) =>
        /\ response.kind = "response"
        /\ response.ok \/ response.code \in {"PLANNER_ERROR", "POLICY_VIOLATION"}

\* the plan file of the path is missing, or it cannot be read
ClaimMissingOrUnreadable(plan_file, tasks) ==
    \/ plan_file \notin DOMAIN tasks
    \/ tasks[plan_file].plan.kind \in {"absent", "unreadable"}

\* C16: dispatching a plan whose plan file is missing or unreadable fails
\* with DispatchError and leaves the queue, the dispatch state and the
\* sidecars as they were.
C16_MissingPlanFileIsDispatchError ==
    [][(/\ ClaimInvoked({"dispatch_plan"})
        /\ request'.args.planFile # None
        /\ ClaimMissingOrUnreadable(request'.args.planFile, tasksDir))
          => /\ response'.kind = "response"
             /\ response'.type = "DispatchError"
             /\ tasksDir' = tasksDir
             /\ queueDir' = queueDir]_vars

\* C18: no call of the tool layer changes the content of a plan.json that
\* has been archived.
C18_ArchivedPlanImmutable ==
    [][\A id \in DOMAIN tasksDir :
          tasksDir[id].plan.kind = "plan" =>
              /\ id \in DOMAIN tasksDir'
              /\ tasksDir'[id].plan = tasksDir[id].plan]_vars


(***************************************************************************)
(* The claim about the files.                                               *)
(***************************************************************************)
\* the read fell into a write_text of a process in another role
ClaimReadDuringWrite ==
    /\ reader.done
    /\ reader.writing.pc = "open"
    /\ reader.writing.file = reader.file
    /\ reader.writing.role # reader.role

\* C17: a reader in another role than the writer observes the complete
\* previous content of the file or the complete new content, never an empty
\* or a partly written file
C17_ReadersSeeCompleteFiles ==
    ClaimReadDuringWrite =>
        reader.text \in {reader.writing.previous, reader.writing.data}


(***************************************************************************)
(* The claim about the supervisor's progress.                               *)
(***************************************************************************)
ClaimSupervised == \E i \in 1..Len(registry) : Active(registry[i])

ClaimPROpen == pr.exists => Upper(pr.state) = "OPEN"

\* C20: under fair supervisor ticks, agents that open a PR or end, and
\* checks that finish, no registry entry stays in running or pr_created
\* forever
C20_SupervisionEnds == ClaimSupervised ~> ~ClaimSupervised

\* the same as long as nobody closes or merges the PR
ClaimSupervisionEndsWhileOpen == ClaimSupervised ~> (~ClaimSupervised \/ ~ClaimPROpen)


(***************************************************************************)
(* The claim about watch mode.                                              *)
(***************************************************************************)
ClaimEveryDispatched(subtasks, dispatched) ==
    \A i \in 1..Len(subtasks) : subtasks[i].id \in DOMAIN dispatched

\* a round ends the watch exactly when the dispatch state holds an entry
\* for every subtask, or the round is number max_loops of a capped watch
ClaimReturnsWhenDue ==
    [][WatchRound =>
          (watching'.pc = "returned" <=>
              \/ ClaimEveryDispatched(watching.subtasks, dispatchState')
              \/ watching.capped /\ watching'.loops = watching.max_loops)]_vars

\* a watch without cap returns
ClaimWatchReturns ==
    (watching.pc = "polling" /\ ~watching.capped) ~> (watching.pc = "returned")

\* a watch that returned without reaching its cap has queued every subtask
\* that was not queued before, each once
ClaimQueuedOnce ==
    (watching.pc = "returned" /\ ~watching.capped) =>
        /\ \A i \in 1..Len(watching.subtasks) :
              is_queued(dispatchState, watching.subtasks[i].id)
        /\ Len(watching.all_queued) = Cardinality(Range(watching.all_queued))
        /\ Range(watching.all_queued) =
              {execution_task_id(plan, watching.subtasks[i]) :
                  i \in {k \in 1..Len(watching.subtasks) :
                           watching.subtasks[k].id \notin watching.before}}

\* C21: watch mode returns as soon as the dispatch state holds an entry for
\* every subtask of the plan, or after max_loops rounds; when the queued
\* tasks become ready it returns, having queued every subtask once
C21_WatchTerminates == ClaimReturnsWhenDue /\ ClaimWatchReturns /\ []ClaimQueuedOnce

\* the same for a plan that was not planned again under its id
ClaimWatchReturnsUnlessReplanned ==
    (watching.pc = "polling" /\ ~watching.capped /\ watching.replans = 0)
        ~> (watching.pc = "returned")

(***************************************************************************)
(* The claim about archiving a plan again.                                  *)
(***************************************************************************)
\* a step that archives the subtasks and does nothing else to the sidecars:
\* save_plan, and dispatch_plan_file up to the start of the watch
ClaimReArchive == Replan \/ WatchAndDispatch(FALSE, 0)

ClaimSidecarsKept ==
    \A d \in DOMAIN sidecars : d \in DOMAIN sidecars' /\ sidecars'[d] = sidecars[d]

ClaimNewSidecarsPlanned ==
    \A d \in DOMAIN sidecars' \ DOMAIN sidecars :
        sidecars'[d] = [state |-> "planned", queuedTaskId |-> None, queuedAt |-> None]

ClaimQueuedStays ==
    \A d \in DOMAIN sidecars :
        sidecars[d].state = "queued" =>
            d \in DOMAIN sidecars' /\ sidecars'[d].state = "queued"

\* C22: archiving a plan again leaves the dispatch field of every sidecar
\* that exists as it is and gives a new sidecar {planned, null, null}; no
\* step takes a queued sidecar back to planned
C22_ReArchiveKeepsDispatch ==
    /\ [][ClaimReArchive => ClaimSidecarsKept /\ ClaimNewSidecarsPlanned]_vars
    /\ [][ClaimQueuedStays]_vars

\* C22: the plan was archived again at the start of a watch, when one
\* sidecar was queued, and a subtask new to the plan got its sidecar
C22_Witness ==
    /\ watching.pc = "polling" /\ ~watching.capped
    /\ watching.replans = 1
    /\ watching.all_queued = <<>>
    /\ \E d \in watching.before : sidecars[d].state = "queued"
    /\ \E d \in DOMAIN sidecars \ watching.before : sidecars[d] = Planned

(***************************************************************************)
(* The claims about one tick of the supervisor.                             *)
(***************************************************************************)
\* a step that is the for loop of one tick
ClaimTick == monitor.pc = "loop" /\ monitor'.pc = "save"

\* entry i is supervised and its record is valid
ClaimLookedAt(i) ==
    /\ Active(monitor.items[i])
    /\ monitor.items[i].worktree \in DOMAIN worktrees

\* in this tick entry i has an OPEN PR whose checks have failed, attempts
\* left, and nothing goes wrong while the supervisor handles it
ClaimRetryDue(i) ==
    /\ ClaimLookedAt(i)
    /\ monitor'.seen[i].fault = "none"
    /\ monitor'.seen[i].restart_ok
    /\ monitor'.seen[i].pr.exists
    /\ monitor'.seen[i].pr.state = "OPEN"
    /\ ~analyze_checks(monitor'.seen[i].pr).pending
    /\ ~analyze_checks(monitor'.seen[i].pr).passed
    /\ monitor.items[i].attempts < monitor.items[i].maxAttempts

ClaimRetried(i, runner) ==
    LET t == monitor.items[i]
        n == t.attempts + 1
        name == "prompt.retry" \o ToString(n) \o ".txt"
    IN /\ monitor'.items[i].attempts = n
       /\ name \in DOMAIN worktrees'[t.worktree]
       /\ runs'[t.id] = [runner |-> runner, prompt |-> name, mode |-> t.executionMode]
       /\ monitor'.items[i].executionMode = t.executionMode
       /\ runtime'[t.id] = "alive"
       /\ respawns'[t.id] = respawns[t.id] + 1
       /\ monitor'.items[i].status = "running"
       /\ monitor'.items[i].note = "retry #" \o ToString(n) \o " triggered"
       /\ notified'["retry"][t.id] = notified["retry"][t.id] + 1

\* the runner of the entry's agent, as the spawner chose it
ClaimRunnerOf(t) ==
    IF t.agent = "claude" THEN "agents/run-claude-agent.sh"
    ELSE "agents/run-codex-agent.sh"

\* C23: when the checks of an OPEN PR have failed and attempts are left, one
\* tick makes attempts n = attempts + 1, writes prompt.retry<n>.txt, starts
\* the entry's runner again under the entry's backend on that prompt, and
\* leaves status running, note "retry #n triggered" and one notification
C23_RetryTick ==
    [][ClaimTick =>
          \A i \in 1..Len(monitor.items) :
              ClaimRetryDue(i) => ClaimRetried(i, ClaimRunnerOf(monitor.items[i]))]_vars

\* the same, with the codex runner whatever the entry's agent is
ClaimRetryTickCodex ==
    [][ClaimTick =>
          \A i \in 1..Len(monitor.items) :
              ClaimRetryDue(i) => ClaimRetried(i, "agents/run-codex-agent.sh")]_vars

\* nothing that belongs to the task of entry t changes in this step
ClaimTaskUntouched(t) ==
    /\ \A kind \in NotificationKinds : notified'[kind][t.id] = notified[kind][t.id]
    /\ respawns'[t.id] = respawns[t.id]
    /\ runtime'[t.id] = runtime[t.id]
    /\ runs'[t.id] = runs[t.id]
    /\ FilesOf(worktrees', t.worktree) = FilesOf(worktrees, t.worktree)

ClaimAbsorbed(t) == t.status \notin {"running", "pr_created"}

\* C25: an entry whose status is neither running nor pr_created is left as
\* it is by every tick, whatever the tick sees of its PR, its checks and its
\* runner, and so it stays in the registry file
C25_InactiveAbsorbing ==
    /\ [][ClaimTick =>
            \A i \in 1..Len(monitor.items) :
                ClaimAbsorbed(monitor.items[i]) =>
                    /\ monitor'.items[i] = monitor.items[i]
                    /\ ClaimTaskUntouched(monitor.items[i])]_vars
    /\ [][\A i \in 1..Len(registry) :
              ClaimAbsorbed(registry[i]) => registry'[i] = registry[i]]_vars

\* C25: a tick has passed over an entry that an earlier tick made ready and
\* whose runner has ended since, and has changed the other entry
C25_Witness ==
    /\ monitor.pc = "save"
    /\ monitor.changed
    /\ \E i \in 1..Len(monitor.items) :
          /\ monitor.items[i].status = "ready"
          /\ registry[i].status = "ready"
          /\ notified["ready"][monitor.items[i].id] = 1
          /\ runtime[monitor.items[i].id] = "exited"

ClaimVerdicts == {"agent_exited", "agent_failed", "agent_dead"}

\* the notifications about the task of t in this step: one of the given
\* kind, or none at all
ClaimNotifiedOnce(t, kind) ==
    \A k \in NotificationKinds :
        notified'[k][t.id] = notified[k][t.id] + (IF k = kind THEN 1 ELSE 0)

\* the verdict for what the exit status file shows, and its notification
ClaimVerdictFor(i) ==
    LET t == monitor.items[i]
        e == monitor'.seen[i].exit_info
    IN /\ e = "zero" =>
             /\ monitor'.items[i].status = "agent_exited"
             /\ ClaimNotifiedOnce(t, "no notification")
       /\ e = "nonzero" =>
             /\ monitor'.items[i].status = "agent_failed"
             /\ ClaimNotifiedOnce(t, "agent_failed")
       /\ e = "none" =>
             /\ monitor'.items[i].status = "agent_dead"
             /\ ClaimNotifiedOnce(t, "agent_dead")

\* entry i is running, the tick finds no PR for it and its runner is gone
ClaimDeadBeforePR(i) ==
    /\ monitor.items[i].status = "running"
    /\ monitor'.seen[i].looked
    /\ ~monitor'.seen[i].pr.exists
    /\ runtime[monitor.items[i].id] # "alive"

\* C26: a tick gives agent_exited, agent_failed or agent_dead only to a
\* running entry without PR whose runner is gone: exit code 0 gives
\* agent_exited and no notification, another exit code agent_failed, no
\* exit status file agent_dead, each of the two with one notification; an
\* entry whose PR the tick finds gets none of the three
C26_LivenessVerdicts ==
    [][ClaimTick =>
          \A i \in 1..Len(monitor.items) :
              /\ (/\ monitor'.items[i].status \in ClaimVerdicts
                  /\ monitor.items[i].status \notin ClaimVerdicts)
                    => ClaimDeadBeforePR(i) /\ ClaimVerdictFor(i)
              /\ (ClaimDeadBeforePR(i) /\ ClaimLookedAt(i)
                     /\ monitor'.seen[i].fault = "none")
                    => ClaimVerdictFor(i)
              /\ (monitor'.seen[i].pr.exists
                     /\ monitor.items[i].status \notin ClaimVerdicts)
                    => monitor'.items[i].status \notin ClaimVerdicts]_vars

\* C26: one tick has found the runner of one entry ended with a non-zero
\* exit code and no PR, and the PR of the other entry with its runner gone
C26_Witness ==
    /\ monitor.pc = "save"
    /\ \E i, j \in 1..Len(monitor.items) :
          /\ monitor.items[i].status = "agent_failed"
          /\ monitor.seen[i].exit_info = "nonzero"
          /\ notified["agent_failed"][monitor.items[i].id] = 1
          /\ monitor.seen[j].pr.exists
          /\ runtime[monitor.items[j].id] = "exited"
          /\ monitor.items[j].status = "pr_created"

\* handling entry i fails in this tick: its record is invalid, or looking
\* for its PR raises, or its retry is due and writing the retry prompt
\* raises or the runner cannot be started again
ClaimEntryFails(i) ==
    /\ Active(monitor.items[i])
    /\ \/ monitor.items[i].worktree \notin DOMAIN worktrees
       \/ monitor'.seen[i].fault = "pr_info"
       \/ /\ monitor'.seen[i].pr.exists
          /\ monitor'.seen[i].pr.state = "OPEN"
          /\ ~analyze_checks(monitor'.seen[i].pr).pending
          /\ ~analyze_checks(monitor'.seen[i].pr).passed
          /\ monitor.items[i].attempts < monitor.items[i].maxAttempts
          /\ monitor'.seen[i].fault = "write_text" \/ ~monitor'.seen[i].restart_ok

ClaimFailureNotes ==
    {"invalid task record (missing id/worktree/branch)", "monitor error",
     "failed to restart agent"}

\* what the tick owes a sound entry: it is looked at, and with checks passed
\* on a clean merge it becomes ready, with a PR closed it stays supervised
ClaimProcessed(j) ==
    /\ monitor'.seen[j].looked
    /\ (monitor'.seen[j].pr = CleanPR /\ monitor'.seen[j].fault = "none"
          /\ monitor.items[j].id \notin notified_ready)
         => monitor'.items[j].status = "ready"
    /\ monitor'.seen[j].pr = ClosedPR /\ monitor'.seen[j].fault = "none"
         => monitor'.items[j].status = "pr_created"

\* C27: when handling one entry fails, that entry becomes blocked with a
\* note, every other supervised entry is still handled in the same tick,
\* and the tick ends by writing all entries to the registry file
C27_EntryFailureContained ==
    /\ [][ClaimTick =>
            /\ Len(monitor'.items) = Len(monitor.items)
            /\ \A i \in 1..Len(monitor.items) :
                  ClaimEntryFails(i) =>
                      /\ monitor'.items[i].status = "blocked"
                      /\ monitor'.items[i].note \in ClaimFailureNotes
                      /\ monitor'.changed
                      /\ \A j \in 1..Len(monitor.items) \ {i} :
                            ClaimLookedAt(j) => ClaimProcessed(j)]_vars
    /\ [][monitor.pc = "save" /\ monitor.changed /\ monitor'.pc = "idle"
            => registry' = monitor.items]_vars

\* C27: in one tick looking for the PR of one entry raised and the entry is
\* blocked, while the other entry, whose checks passed, became ready
C27_Witness ==
    /\ monitor.pc = "save"
    /\ \E i, j \in 1..Len(monitor.items) :
          /\ monitor.seen[i].fault = "pr_info"
          /\ monitor.items[i].status = "blocked"
          /\ monitor.items[i].note = "monitor error"
          /\ registry[i].status \in {"running", "pr_created"}
          /\ monitor.seen[j].pr = CleanPR
          /\ monitor.items[j].status = "ready"
          /\ registry[j].status = "running"

\* the tick finds the PR of entry i with its checks pending, or not OPEN
ClaimPendingOrNotOpen(i) ==
    /\ ClaimLookedAt(i)
    /\ monitor'.seen[i].fault = "none"
    /\ monitor'.seen[i].pr.exists
    /\ \/ monitor'.seen[i].pr.state # "OPEN"
       \/ analyze_checks(monitor'.seen[i].pr).pending

\* C28: for an entry whose PR is not OPEN, or OPEN with checks pending, a
\* tick changes nothing but running to pr_created with pr and prUrl: no
\* other field changes, no retry prompt is written, the runner is left alone
\* and no notification is sent
C28_PendingIsNoOp ==
    [][ClaimTick =>
          \A i \in 1..Len(monitor.items) :
              ClaimPendingOrNotOpen(i) =>
                  /\ monitor'.items[i] =
                        IF monitor.items[i].status = "running"
                        THEN [monitor.items[i] EXCEPT
                                !.status = "pr_created",
                                !.pr = monitor'.seen[i].pr.number,
                                !.prUrl = monitor'.seen[i].pr.url]
                        ELSE monitor.items[i]
                  /\ ClaimTaskUntouched(monitor.items[i])]_vars

\* C28: one tick has seen the PR of a running entry for the first time,
\* its checks pending, and the closed PR of an entry that was pr_created
C28_Witness ==
    /\ monitor.pc = "save"
    /\ \E i, j \in 1..Len(monitor.items) :
          /\ monitor.seen[i].pr = PendingPR
          /\ registry[i].status = "running"
          /\ monitor.items[i].status = "pr_created"
          /\ monitor.items[i].prUrl # None
          /\ monitor.seen[j].pr = ClosedPR
          /\ registry[j].status = "pr_created"
          /\ monitor.items[j] = registry[j]

(***************************************************************************)
(* The claims about the spawner.                                           *)
(***************************************************************************)
\* "task.maxAttempts or 3": the value under the key unless it is absent,
\* null or 0
ClaimOrDefault(task) ==
    IF /\ "maxAttempts" \in DOMAIN task
       /\ task.maxAttempts.json = "number"
       /\ task.maxAttempts.value # 0
    THEN task.maxAttempts.value
    ELSE DefaultMaxAttempts

ClaimIds(reg) == [i \in 1..Len(reg) |-> reg[i].id]

\* the spawner writes the registry for the file it is processing
ClaimSpawned == spawner.pc = "save" /\ spawner'.pc = "unlink"

\* the spawner gives up the file it is processing: it has no id or no
\* repo, or spawn_agent raised
ClaimSpawnFailed ==
    \/ spawner.pc = "spawn" /\ spawner'.pc \in {"idle", "read"}
    \/ /\ spawner.pc = "read" /\ spawner' = NextFile(spawner.files)
       /\ Head(spawner.files) \in DOMAIN queueDir
       /\ \/ "id" \notin DOMAIN queueDir[Head(spawner.files)]
          \/ "repo" \notin DOMAIN queueDir[Head(spawner.files)]

\* the entry a successful spawn adds, with the given maxAttempts
ClaimEntryAdded(max_attempts) ==
    /\ ClaimIds(registry') = Append(ClaimIds(registry), spawner.task.id)
    /\ spawner.task.id \notin Range(ClaimIds(registry))
    /\ registry'[Len(registry')].status = "running"
    /\ registry'[Len(registry')].attempts = 0
    /\ registry'[Len(registry')].maxAttempts = max_attempts
    /\ queueDir' = queueDir
    /\ Head(spawner.files) \in DOMAIN queueDir

\* a queue file goes only in the step that follows the spawner's write of
\* its entry, or when the registry holds an entry of its id already
ClaimUnlinkedAfterWrite ==
    /\ spawner'.pc = "unlink" => spawner.pc \in {"save", "unlink"}
    /\ \A p \in DOMAIN queueDir \ DOMAIN queueDir' :
          /\ p = Head(spawner.files)
          /\ "id" \in DOMAIN queueDir[p]
          /\ \/ spawner.pc = "unlink" /\ spawner.item.id = queueDir[p].id
             \/ /\ spawner.pc = "read"
                /\ queueDir[p].id \in Range(ClaimIds(registry))
                /\ registry' = registry

ClaimFailureKeeps == ClaimSpawnFailed => queueDir' = queueDir /\ registry' = registry

ClaimSpawnOutcomesInt ==
    [][/\ ClaimSpawned => ClaimEntryAdded(max_attempts_of(spawner.task).value)
       /\ ClaimUnlinkedAfterWrite
       /\ ClaimFailureKeeps]_vars

\* a file with maxAttempts null is given up after its runner was started
ClaimRunnerWithoutEntry ==
    \E id \in DOMAIN runtime :
        /\ runtime[id] = "alive"
        /\ id \notin Range(ClaimIds(registry))
        /\ spawner.pc = "idle"
        /\ id \in DOMAIN queueDir

ClaimNoRunnerWithoutEntry == ~ClaimRunnerWithoutEntry

\* every prompt.txt there is keeps its content over the step
ClaimBasePromptKept ==
    \A dir \in DOMAIN worktrees :
        "prompt.txt" \in DOMAIN worktrees[dir] =>
            /\ dir \in DOMAIN worktrees'
            /\ "prompt.txt" \in DOMAIN worktrees'[dir]
            /\ worktrees'[dir]["prompt.txt"] = worktrees[dir]["prompt.txt"]

\* C29: once the spawner has written <worktree>/prompt.txt for a task, no
\* step of the supervisor and no later step of the spawner changes its
\* content, under either worktree strategy.
C29_BasePromptKept == [][ClaimBasePromptKept]_vars

\* spawn_agent ends, one way or the other, for a task of a shared worktree
ClaimSharedSpawn ==
    /\ spawner.pc = "spawn" /\ spawner'.pc # "spawn"
    /\ resolve_branch(spawner.task).prefix = "plan"

\* the same for every step but the spawn of a task of a shared worktree
ClaimBasePromptKeptUnlessShared == [][ClaimSharedSpawn \/ ClaimBasePromptKept]_vars

\* a retry prompt is written next to a base prompt
ClaimRetryPromptWritten ==
    \E dir \in DOMAIN worktrees :
        {"prompt.txt", retry_prompt_name(1)} \subseteq DOMAIN worktrees[dir]

ClaimNoRetryPromptWritten == ~ClaimRetryPromptWritten

(***************************************************************************)
(* The claim about the readers of the registry.                            *)
(***************************************************************************)
ClaimAbsent == reader.done /\ ~reader.exists

ClaimMalformed == reader.done /\ reader.exists /\ ~json_loads(reader.text).returns

ClaimTreatedAsEmpty == reader.result = Return(<<>>) /\ reader.operation = "runs"

\* C30: a reader of the registry (dispatcher, spawner, supervisor,
\* task_status) that finds the file absent or its JSON malformed takes the
\* registry to be empty and carries on with its operation.
C30_ReadersTolerate == ClaimAbsent \/ ClaimMalformed => ClaimTreatedAsEmpty

\* an absent file is an empty registry to every reader
ClaimAbsentIsEmpty == ClaimAbsent => ClaimTreatedAsEmpty

\* malformed JSON raises in every reader
ClaimMalformedRaises ==
    ClaimMalformed =>
        /\ ~reader.result.returns
        /\ reader.operation # "runs"
        /\ reader.result.raised =
              IF reader.role = "tools" THEN "PlannerError" ELSE "JSONDecodeError"

ClaimNoAbsentLoad == ~(ClaimAbsent /\ reader.role = "spawner")

(***************************************************************************)
(* The claim about branches and worktrees.                                 *)
(***************************************************************************)
\* the entries the spawner has made so far: those of the registry and the
\* one it is about to save
ClaimAssigned ==
    Range(registry) \cup (IF spawner.pc = "save" THEN {spawner.item} ELSE {})

ClaimOwnBranch(a, b) == a.branch # b.branch /\ a.worktree # b.worktree

ClaimSharedPlan(a, b) ==
    /\ Get(metadata_of(a), "worktreeStrategy", None) = "shared"
    /\ Get(metadata_of(b), "worktreeStrategy", None) = "shared"
    /\ metadata_of(a).planId = metadata_of(b).planId

\* C31: the spawner never gives the same branch or the same worktree
\* directory to two execution tasks with different ids.
C31_DedicatedBranch ==
    \A a \in ClaimAssigned, b \in ClaimAssigned : a.id # b.id => ClaimOwnBranch(a, b)

\* the same for every two tasks that are not both of the shared strategy
\* of one plan
ClaimDedicatedUnlessShared ==
    \A a \in ClaimAssigned, b \in ClaimAssigned :
        a.id # b.id => ClaimOwnBranch(a, b) \/ ClaimSharedPlan(a, b)

\* two entries of different ids
ClaimTwoAssigned == \E a \in ClaimAssigned, b \in ClaimAssigned : a.id # b.id

ClaimNotTwoAssigned == ~ClaimTwoAssigned

(***************************************************************************)
(* The claim about the planner.                                            *)
(***************************************************************************)
ClaimPlanned == payload.subtasks # <<>>

\* the number of satisfied criteria
ClaimComplexity ==
    Cardinality(
        {c \in {"length", "files", "constraints", "verb", "conjunction"} :
            CASE c = "length" -> request.objective_length >= 140
              [] c = "files" -> files_hint_len(request.files) >= 3
              [] c = "constraints" -> request.constraints
              [] c = "verb" -> contains_any(request.text, FOUNDATION_SPLIT_TERMS)
              [] OTHER -> contains_any(request.text, CONJUNCTION_TOKENS)})

ClaimFoundationEmitted ==
    \E i \in 1..Len(payload.subtasks) : payload.subtasks[i].title = FoundationTitle

ClaimDocsOrAnalysisOnly ==
    build_task_profile(request).docs_only \/ build_task_profile(request).analysis_only

\* 1 to 4 subtasks S1..Sn, each depending on the one before, in the order
\* of the template
ClaimLinearChain ==
    /\ Len(payload.subtasks) \in 1..4
    /\ \A i \in 1..Len(payload.subtasks) :
          /\ payload.subtasks[i].id = SubtaskNames[i]
          /\ payload.subtasks[i].depends_on =
                IF i = 1 THEN <<>> ELSE <<SubtaskNames[i - 1]>>
    /\ \A i \in 1..Len(payload.subtasks), j \in 1..Len(payload.subtasks) :
          i < j =>
              IndexOf(<<FoundationTitle, ImplementationTitle, ValidationTitle,
                        DocumentationTitle, AnalysisTitle, DocsOnlyTitle>>,
                      payload.subtasks[i].title)
                < IndexOf(<<FoundationTitle, ImplementationTitle, ValidationTitle,
                            DocumentationTitle, AnalysisTitle, DocsOnlyTitle>>,
                          payload.subtasks[j].title)

\* C32: the planner emits the foundation subtask if and only if the request
\* is neither docs-only nor analysis-only and its complexity score is >= 3;
\* every plan has 1 to 4 subtasks S1..Sn in one linear chain in template
\* order.
C32_FoundationSplit ==
    ClaimPlanned =>
        /\ ClaimFoundationEmitted <=> (~ClaimDocsOrAnalysisOnly /\ ClaimComplexity >= 3)
        /\ ClaimLinearChain

\* the same with the split also decided by a structural verb alone
ClaimFoundationSplitByVerb ==
    ClaimPlanned =>
        /\ ClaimFoundationEmitted <=>
              /\ ~ClaimDocsOrAnalysisOnly
              /\ \/ ClaimComplexity >= 3
                 \/ contains_any(request.text, FOUNDATION_SPLIT_TERMS)
        /\ ClaimLinearChain

ClaimFourSubtasks == Len(payload.subtasks) = 4
ClaimNotFourSubtasks == ~ClaimFourSubtasks

(***************************************************************************)
(* The claim about the ids.                                                *)
(***************************************************************************)
\* a subtask that was queued has its own queue file or its own registry
\* entry
ClaimOnItsWay(subtask_id) ==
    \/ \E p \in DOMAIN queueDir : queueDir[p].metadata.subtaskId = subtask_id
    \/ \E i \in 1..Len(registry) : registry[i].metadata.subtaskId = subtask_id

\* C33: within one plan two different subtasks have different execution
\* task ids, so no queue file replaces another's and no subtask is dropped
\* by the spawner as tracked.
C33_DistinctTaskIds ==
    /\ execution_task_id_chars(payload.planId, payload.subtasks[1].id)
          # execution_task_id_chars(payload.planId, payload.subtasks[2].id)
    /\ \A id \in DOMAIN dispatchState : ClaimOnItsWay(id)

\* ids on which the sanitizer changes nothing
ClaimCanonical(subtask_id) ==
    sanitize_identifier_chars(payload.planId \o <<"-">> \o subtask_id)
        = payload.planId \o <<"-">> \o subtask_id

\* the same for the plans whose ids the sanitizer leaves as they are
ClaimDistinctCanonicalIds ==
    (\A i \in 1..2 : ClaimCanonical(payload.subtasks[i].id)) => C33_DistinctTaskIds

ClaimBothSpawned ==
    /\ Len(registry) = 2
    /\ queueDir = <<>>
    /\ \A i \in 1..2 : ClaimCanonical(payload.subtasks[i].id)

ClaimNotBothSpawned == ~ClaimBothSpawned

(***************************************************************************)
(* The claim about the CI result behind a retry.                           *)
(***************************************************************************)
\* entry i as loaded is running on a retry the supervisor triggered, and no
\* tick since has seen its PR (seeing it makes the entry pr_created); this
\* tick sees the failed checks
ClaimSameFailureSeen(i) ==
    /\ monitor.pc = "loop"
    /\ monitor'.pc = "save"
    /\ monitor.items[i].status = "running"
    /\ monitor.items[i].attempts >= 1
    /\ monitor.items[i].note = retry_note(monitor.items[i].attempts)
    /\ monitor'.seen[i] = Observation(FailedPR, "none", TRUE)

\* C34: a tick that sees the failed checks behind the retry it triggered,
\* with no other state of the checks seen since, triggers no further retry
\* and does not block the entry for exhausted retries.
C34_FreshResultPerRetry ==
    [][\A i \in 1..Len(monitor.items) :
          ClaimSameFailureSeen(i) =>
              /\ monitor'.items[i].attempts = monitor.items[i].attempts
              /\ monitor'.items[i].status # "blocked"]_vars

\* what the tick does then: the next retry, or blocked when none is left
ClaimRetryOnEverySight ==
    [][\A i \in 1..Len(monitor.items) :
          ClaimSameFailureSeen(i) =>
              IF monitor.items[i].attempts >= monitor.items[i].maxAttempts
              THEN /\ monitor'.items[i].status = "blocked"
                   /\ monitor'.items[i].note = "max retries reached"
              ELSE /\ monitor'.items[i].attempts = monitor.items[i].attempts + 1
                   /\ monitor'.items[i].note
                         = retry_note(monitor.items[i].attempts + 1)]_vars

\* two retries of one entry
ClaimTwoRetries == \E id \in DOMAIN respawns : respawns[id] >= 2

ClaimNoTwoRetries == ~ClaimTwoRetries

(***************************************************************************)
(* The claim about the registry after the ready notification.              *)
(***************************************************************************)
\* the tick that promotes entry i has not ended: it is about to write
ClaimPromoting(i) ==
    /\ monitor.pc = "save"
    /\ monitor.seen[i].looked
    /\ ClaimCleanPass(monitor.seen[i].pr)
    /\ monitor.items[i].status = "ready"

\* C35: once the ready notification of a task id has been sent and the tick
\* that sent it has ended, the registry file shows that entry as ready.
C35_ReadyPersisted ==
    \A i \in 1..Len(registry) :
        (notified["ready"][registry[i].id] > 0 /\ ~ClaimPromoting(i)) =>
            registry[i].status = "ready"

\* a supervisor that has sent the ready notification of an entry does not
\* make that entry ready again
ClaimNoSecondPromotion ==
    [][\A i \in 1..Len(monitor.items) :
          (/\ monitor.pc = "loop"
           /\ monitor.items[i].id \in notified_ready
           /\ monitor.items[i].status # "ready") =>
              monitor'.items[i].status # "ready"]_vars

\* an entry made ready, its notification sent, and the file showing it
\* ready after the tick
ClaimReadyOnFile ==
    /\ monitor.pc = "idle"
    /\ \E i \in 1..Len(registry) :
          /\ registry[i].status = "ready"
          /\ notified["ready"][registry[i].id] = 1

ClaimNotReadyOnFile == ~ClaimReadyOnFile

(***************************************************************************)
(* The claim about the dispatch state over the calls.                      *)
(***************************************************************************)
\* C36: over the calls of the dispatcher, on whatever registry, a subtask
\* that is queued stays queued with the task id and the time it has, the
\* set of dispatched ids only grows, and no call writes the queue file of a
\* subtask that was queued before the call.
C36_DispatchStateMonotone ==
    [][/\ DOMAIN dispatchState \subseteq DOMAIN dispatchState'
       /\ \A id \in DOMAIN dispatchState :
             dispatchState[id].state = "queued" =>
                 /\ dispatchState'[id] = dispatchState[id]
                 /\ call'.n # call.n =>
                       dispatchState[id].queuedTaskId \notin Range(call'.queued_paths)]_vars

\* a second call has queued a subtask while another had been queued by an
\* earlier one
ClaimLaterCallQueues ==
    /\ call.n >= 2
    /\ call.queued_paths # <<>>
    /\ \E id \in DOMAIN call.dispatched_before :
          /\ call.dispatched_before[id].state = "queued"
          /\ dispatchState[id] = call.dispatched_before[id]
    /\ DOMAIN call.dispatched_before # DOMAIN dispatchState

(***************************************************************************)
(* The claim about the queued subtasks in the running system.              *)
(***************************************************************************)
\* subtask d of the plan has been queued, its agent has been started, and
\* the supervisor has promoted its entry to ready
ClaimWentThrough(d) ==
    /\ is_queued(dispatchState, d)
    /\ launches[execution_task_id(plan, [id |-> d])] >= 1
    /\ notified["ready"][execution_task_id(plan, [id |-> d])] >= 1

\* C37: in the running system every subtask that a queued subtask depends
\* on is itself queued, was spawned, and has reached ready.
C37_QueuedClosedUnderDeps ==
    \A k \in 1..Len(plan.subtasks) :
        is_queued(dispatchState, plan.subtasks[k].id) =>
            \A d \in Range(plan.subtasks[k].depends_on) : ClaimWentThrough(d)

\* C37: the last subtask of the chain is queued, after the two before it
\* went through the spawner and the supervisor.
C37_Witness ==
    /\ Len(plan.subtasks) = 3
    /\ is_queued(dispatchState, "S3")
    /\ plan.subtasks[3].depends_on = <<"S2">>
    /\ ClaimWentThrough("S2")
    /\ ClaimWentThrough("S1")

(***************************************************************************)
(* The claim about the ids of the registry.                                *)
(***************************************************************************)
\* C38: no two entries of the registry file have the same id, however the
\* polls of the spawner and the ticks of the supervisor interleave.
C38_RegistryIdsUnique ==
    \A i \in 1..Len(registry) : \A j \in 1..Len(registry) :
        i # j => registry[i].id # registry[j].id

\* C38: the file holds two entries, the second written by the spawner, after
\* a tick of the supervisor restarted an agent and the queue was emptied.
C38_Witness ==
    /\ Len(registry) = 2
    /\ queueDir = <<>>
    /\ \E id \in DOMAIN respawns : respawns[id] >= 1

(***************************************************************************)
(* The claim about a restart that fails.                                   *)
(***************************************************************************)
\* the tick retries entry i, a sound record with attempts left, and the
\* restart of its agent fails
ClaimRestartFails(i) ==
    /\ monitor.pc = "loop"
    /\ monitor'.pc = "save"
    /\ Active(monitor.items[i])
    /\ monitor.items[i].worktree \in DOMAIN worktrees
    /\ monitor.items[i].attempts < monitor.items[i].maxAttempts
    /\ monitor'.seen[i] = Observation(FailedPR, "none", FALSE)

\* C39: a tick whose restart of an agent fails leaves the entry blocked
\* with a note naming the failure and its attempts as they were, and sends
\* one notification; after that no retry of that entry is attempted again.
C39_FailedRestartBlocks ==
    [][/\ \A i \in 1..Len(monitor.items) :
             ClaimRestartFails(i) =>
                 /\ monitor'.items[i].status = "blocked"
                 /\ monitor'.items[i].note = "failed to restart agent"
                 /\ monitor'.items[i].attempts = monitor.items[i].attempts
                 /\ notified'["restart_failed"][monitor.items[i].id]
                       = notified["restart_failed"][monitor.items[i].id] + 1
                 /\ respawns'[monitor.items[i].id] = respawns[monitor.items[i].id]
       /\ \A id \in DOMAIN respawns :
             notified["restart_failed"][id] >= 1 =>
                 /\ respawns'[id] = respawns[id]
                 /\ notified'["restart_failed"][id] = notified["restart_failed"][id]
                 /\ notified'["retry"][id] = notified["retry"][id]]_vars

\* an entry blocked by a failed restart, written to the file, and passed
\* over by a later tick
ClaimBlockedByRestart ==
    /\ monitor.pc = "save"
    /\ \E i \in 1..Len(monitor.items) :
          /\ monitor.items[i].status = "blocked"
          /\ monitor.items[i].note = "failed to restart agent"
          /\ ~monitor.seen[i].looked
          /\ notified["restart_failed"][monitor.items[i].id] = 1

ClaimNotBlockedByRestart == ~ClaimBlockedByRestart

=============================================================================
